---- MODULE Spec2Model ----
(***************************************************************************)
(* A model of the eon-watcher-server donation pipeline:                    *)
(*   detection -> donation computation -> season-goal adjustment ->        *)
(*   settlement queue -> batched chain submission -> ledger update.        *)
(*                                                                         *)
(* Amounts are integers in base units.  TLC integers are 32 bit, so the    *)
(* decimal scales of the source (1e18 wei per ETH, 1e6 base units per      *)
(* USDC, 1e12 between them) are modelled by smaller powers of ten that     *)
(* keep their ratio structure (WEI_PER_ETH = USDC_UNITS * WEI_PER_UNIT).   *)
(***************************************************************************)
EXTENDS Integers, Sequences, FiniteSets, TLC

VARIABLES
    calc,           \* one donation computation: inputs and result
    seasonRecords,  \* ExistingWallet collection (season_records): id -> document
    txRecords,      \* TransactionRecord collection (transaction_records)
    tasks,          \* the async activations in flight, each at an await
    notifications,  \* sendSeasonCompletionNotification calls made, per goal id
    markDone,       \* markSeasonCompleted invocations that updated, per goal id
    calls,          \* service calls / event deliveries made so far
    watchedWallets, \* BlockchainWatcher.watchedWallets: address -> configurations
    processedTransactions,  \* BlockchainWatcher.processedTransactions
    transactionQueue,       \* BlockchainWatcher.transactionQueue
    isProcessing,   \* BlockchainWatcher.isProcessing
    env,            \* what the chain answers: executor flag, allowances, ether price
    lastProcessedBlock,     \* BlockchainWatcher.lastProcessedBlock
    blockNumber,    \* the chain head, as provider.getBlockNumber() answers it
    scannedBlocks,  \* the blocks fetched with getBlockWithTransactions, in order
    donateCalls,    \* the donate calls the chain accepted, in order
    rpcFaults       \* RPC calls of processDonations that failed so far

blockVars == <<lastProcessedBlock, blockNumber, scannedBlocks>>

pipelineVars ==
    <<watchedWallets, processedTransactions, transactionQueue, isProcessing,
      env, blockVars, donateCalls, rpcFaults>>

vars ==
    <<calc, seasonRecords, txRecords, tasks, notifications, markDone, calls,
      watchedWallets, processedTransactions, transactionQueue, isProcessing,
      env, blockVars, donateCalls, rpcFaults>>

(***************************************************************************)
(* Decimal scales (scaled, see the header).                                *)
(***************************************************************************)
\* BigInt(1e18) of convertEthToUsdc, scaled to 10^4
WEI_PER_ETH == 10000
\* BigInt(1e12) of convertEthToUsdc, scaled to 10^2
WEI_PER_UNIT == 100
\* the 1e6 / 1000000 base units of one USDC, scaled to 10^2
USDC_UNITS == 100
\* getEtherPrice's fallback price (3000 dollars), scaled to 3
DEFAULT_ETHER_PRICE == 3

(***************************************************************************)
(* Bounds of the model.                                                    *)
(***************************************************************************)
\* largest ether price (whole dollars) the price feed reports in the model
MaxEtherPrice == 3
\* rejected remote calls (chain RPC or store) in one behaviour
MaxRpcFaults == 6
\* event deliveries (handleMinedTransaction calls) in one behaviour
MaxDeliveries == 2
\* timestamps are 1 .. MaxTime; Date.now() is MaxTime
MaxTime == 3
\* direct calls of checkAndAdjustDonation / markSeasonCompleted in SpecAdjust
MaxServiceCalls == 2
\* documents of transaction_records present before the adjustment runs
MaxPriorRecords == 2

AssetTypes == {"ETH", "USDC", "WETH", "ERC20"}

\* etherPrice is null until the first successful update
NoPrice == 0
EtherPrices == 0 .. MaxEtherPrice

(***************************************************************************)
(* PriceFeed                                                               *)
(***************************************************************************)
\* getEtherPrice: this.etherPrice || 3000
getEtherPrice(etherPrice) ==
    IF etherPrice = NoPrice THEN DEFAULT_ETHER_PRICE ELSE etherPrice

\* convertEthToUsdc: integer arithmetic with truncation at both divisions
convertEthToUsdc(ethAmount, etherPrice) ==
    IF ethAmount = 0 THEN 0
    ELSE LET ethPrice       == getEtherPrice(etherPrice)
             ethPriceBigInt == ethPrice * WEI_PER_ETH
             usdValueBigInt == (ethAmount * ethPriceBigInt) \div WEI_PER_ETH
         IN  usdValueBigInt \div WEI_PER_UNIT

(***************************************************************************)
(* Donation computation of processValueTransfer.                           *)
(***************************************************************************)
\* usdcEquivalent of the transfer; -1 stands for "unsupported asset, skip"
Unsupported == -1

usdcEquivalentOf(assetType, valueAmount, etherPrice) ==
    CASE assetType = "ETH"  -> convertEthToUsdc(valueAmount, etherPrice)
      [] assetType = "USDC" -> valueAmount
      [] assetType = "WETH" -> convertEthToUsdc(valueAmount, etherPrice)
      [] OTHER              -> Unsupported

\* The float estimate usdcValue * (percent / 100), kept as an exact fraction:
\* usdcValue = usdcEquivalent / USDC_UNITS.
donationAmountFloat(usdcEquivalent, donationPercentage) ==
    [num |-> usdcEquivalent * donationPercentage, den |-> USDC_UNITS * 100]

\* BigInt(Math.floor(donationAmountFloat * 1e6))
floatBasedAmount(f) == (f.num * USDC_UNITS) \div f.den

SMALLEST_USDC_UNIT == 1

finalDonationAmount(usdcEquivalent, donationPercentage) ==
    LET donationAmount == (usdcEquivalent * donationPercentage) \div 100
        f              == donationAmountFloat(usdcEquivalent, donationPercentage)
    IN  IF donationAmount > 0 THEN donationAmount
        ELSE IF f.num > 0
             THEN IF floatBasedAmount(f) > 0 THEN floatBasedAmount(f)
                  ELSE SMALLEST_USDC_UNIT
             ELSE 0

\* The amount processValueTransfer goes on with for one configuration;
\* 0 means that no donation is queued.
computeDonation(assetType, valueAmount, donationPercentage, etherPrice) ==
    IF donationPercentage <= 0 THEN 0
    ELSE LET usdcEquivalent == usdcEquivalentOf(assetType, valueAmount, etherPrice)
         IN  IF usdcEquivalent = Unsupported THEN 0
             ELSE finalDonationAmount(usdcEquivalent, donationPercentage)

\* no donation computation under way
NoCalc == [asset |-> "none", value |-> 0, percent |-> 0, price |-> 0,
           done |-> FALSE, donation |-> 0]

(***************************************************************************)
(* The stores.                                                             *)
(*   seasonRecords: the ExistingWallet documents.  One document is both    *)
(*   the wallet's donation configuration and its season goal.              *)
(*   txRecords: the TransactionRecord documents, in insertion order.       *)
(***************************************************************************)
Wallets == {"w1", "w2"}
SeasonIds == {1}
\* a document without fid / startDate / endDate holds 0 there
NoFid == 0
NoDate == 0
NoSeason == 0
\* a record without donation.donationTxHash holds 0 there
NoDonationTx == 0
Now == MaxTime

\* an ExistingWallet document: a wallet's configuration and season goal
configDocument(walletAddress, target, dollarAmount, active, fid) ==
    [walletAddress |-> walletAddress, target |-> target, percentAmount |-> 50,
     authorized |-> "c1", active |-> active, dollarAmount |-> dollarAmount,
     fid |-> fid, completed |-> FALSE, lastDonation |-> 0,
     lastProcessedDonation |-> 0, timestamp |-> 2, created |-> 2,
     startDate |-> NoDate, endDate |-> NoDate]

seasonDocument(dollarAmount, active, fid) ==
    configDocument("w1", "t1", dollarAmount, active, fid)

\* a TransactionRecord document
txDocument(txHash, from, usdcValue, blockTimestamp, status) ==
    [txHash |-> txHash, from |-> from, usdcValue |-> usdcValue,
     blockTimestamp |-> blockTimestamp, status |-> status,
     donationTxHash |-> NoDonationTx, error |-> "none"]
Times == 1 .. MaxTime

\* Math.floor(parseFloat(dollarAmount) * 1000000); the stored dollarAmount is
\* kept in hundredths of a dollar
goalAmountUsdcUnits(dollarAmount) == (dollarAmount * USDC_UNITS) \div 100

RECURSIVE SumUsdcValue(_)
SumUsdcValue(transactions) ==
    IF transactions = <<>> THEN 0
    ELSE Head(transactions).usdcValue + SumUsdcValue(Tail(transactions))

\* calculateTotalDonation: the sum of donation.usdcValue
calculateTotalDonation(transactions) == SumUsdcValue(transactions)

\* What a call expression evaluates to.  The module replaces every method of
\* the exported instance, the synchronous ones included, by an async wrapper,
\* so a call through the instance that is not awaited yields a promise; the
\* value the method computed is what the promise would settle to.
awaited(value) == [promise |-> FALSE, value |-> value]
wrapped(value) == [promise |-> TRUE, value |-> value]

\* the sum compared as if the promise had been awaited
sumExceeds_Awaited(x, y, n) == x.value + y > n

\* >= and > between a call result and a BigInt: a promise converts to the
\* string "[object Promise]", which is no BigInt literal, so the comparison is
\* false; promise + BigInt is a string concatenation, again no BigInt literal
atLeast(x, n) == ~x.promise /\ x.value >= n
sumExceeds(x, y, n) == ~x.promise /\ x.value + y > n

\* getSeasonTransactions: the successful records of the wallet in the window
getSeasonTransactions(walletAddress, startTimestamp, endTimestamp) ==
    SelectSeq(txRecords,
              LAMBDA tx : /\ tx.from = walletAddress
                          /\ tx.status = "success"
                          /\ tx.blockTimestamp >= startTimestamp
                          /\ tx.blockTimestamp <= endTimestamp)

\* getMostRecentSeason: the wallet's document with a non-null dollarAmount and
\* the largest timestamp; NoSeason when there is none
NoDollarAmount == -1
\* a stored dollarAmount that parseFloat turns into NaN
Malformed == -2
getMostRecentSeason(walletAddress) ==
    LET cands == {id \in DOMAIN seasonRecords :
                    /\ seasonRecords[id].walletAddress = walletAddress
                    /\ seasonRecords[id].dollarAmount # NoDollarAmount}
    IN  IF cands = {} THEN NoSeason
        ELSE CHOOSE id \in cands :
                \A o \in cands : seasonRecords[o].timestamp <= seasonRecords[id].timestamp

(***************************************************************************)
(* checkAndAdjustDonation: the result objects.                             *)
(***************************************************************************)
defaultResponse(proposedAmount) ==
    [needsAdjustment |-> FALSE, adjustedAmount |-> proposedAmount,
     proposedAmount |-> proposedAmount, seasonId |-> NoSeason,
     isGoalComplete |-> FALSE, totalDonated |-> awaited(0), goalAmount |-> 0,
     error |-> "none"]

\* the result built in the catch block of checkAndAdjustDonation
errorResponse(proposedAmount) ==
    [defaultResponse(proposedAmount) EXCEPT !.error = "message"]

\* the three outcomes of checkAndAdjustDonation once getSeasonTransactions
\* has resolved; totalDonatedSoFar is the result of the call
\* this.calculateTotalDonation(transactions)
adjustDecision(totalDonatedSoFar, goalAmount, proposedAmount, seasonId) ==
    IF atLeast(totalDonatedSoFar, goalAmount)
    THEN [needsAdjustment |-> TRUE, adjustedAmount |-> 0,
          proposedAmount |-> proposedAmount, seasonId |-> seasonId,
          isGoalComplete |-> TRUE, totalDonated |-> totalDonatedSoFar,
          goalAmount |-> goalAmount, error |-> "none"]
    ELSE IF sumExceeds(totalDonatedSoFar, proposedAmount, goalAmount)
    THEN [needsAdjustment |-> TRUE,
          adjustedAmount |-> goalAmount - totalDonatedSoFar.value,
          proposedAmount |-> proposedAmount, seasonId |-> seasonId,
          isGoalComplete |-> TRUE, totalDonated |-> totalDonatedSoFar,
          goalAmount |-> goalAmount, error |-> "none"]
    ELSE [needsAdjustment |-> FALSE, adjustedAmount |-> proposedAmount,
          proposedAmount |-> proposedAmount, seasonId |-> seasonId,
          isGoalComplete |-> FALSE, totalDonated |-> totalDonatedSoFar,
          goalAmount |-> goalAmount, error |-> "none"]

RemoveAt(seq, i) == SubSeq(seq, 1, i - 1) \o SubSeq(seq, i + 1, Len(seq))

(***************************************************************************)
(* BlockchainService.processDonations.  pd is the state of one invocation: *)
(* the four arrays (spliced in place by the allowance filter), the retry   *)
(* counters and the await it is suspended at.  keys runs parallel to the   *)
(* arrays and names the intent each index came from.                       *)
(***************************************************************************)
maxRetries == 5
maxExecutorRetries == 3
maxAllowanceRetries == 3
maxReceiptRetries == 5

\* how an RPC call ends: it answers, fails with a rate-limit-class error, or
\* fails with another error
RpcOutcomes == {"ok", "rateLimit", "error"}

NoResult == [success |-> FALSE, message |-> "none", transactionHash |-> NoDonationTx]

NoPd ==
    [pc |-> "none", contractAddress |-> "none", keys |-> <<>>, froms |-> <<>>,
     tos |-> <<>>, donationTimes |-> <<>>, usdcAmounts |-> <<>>,
     currentRetry |-> 0, executorRetries |-> 0, allowanceRetries |-> 0,
     receiptRetries |-> 0, i |-> 0, tx |-> NoDonationTx,
     donateAttempts |-> 0, firstDonateRateLimited |-> FALSE,
     result |-> NoResult]

pdReturn(pd, success, message, transactionHash) ==
    [pd EXCEPT !.pc = "done",
               !.result = [success |-> success, message |-> message,
                           transactionHash |-> transactionHash]]

\* one pass of the while loop, from its top to the isExecutor call
loopTop(pd) ==
    IF pd.currentRetry > maxRetries
    THEN pdReturn(pd, FALSE, "Failed to process donations after maximum retries", NoDonationTx)
    ELSE IF \/ Len(pd.froms) = 0
            \/ Len(pd.froms) # Len(pd.tos)
            \/ Len(pd.froms) # Len(pd.donationTimes)
            \/ Len(pd.froms) # Len(pd.usdcAmounts)
    THEN pdReturn(pd, FALSE, "Invalid donation data format", NoDonationTx)
    ELSE [pd EXCEPT !.pc = "isExecutor", !.executorRetries = 0]

\* processDonations(donationData) up to its first await
processDonationsStart(contractAddress, keys, froms, tos, donationTimes, usdcAmounts) ==
    loopTop([NoPd EXCEPT !.contractAddress = contractAddress, !.keys = keys,
                         !.froms = froms, !.tos = tos,
                         !.donationTimes = donationTimes,
                         !.usdcAmounts = usdcAmounts])

\* `Error processing donations: ${error.message}`: the message of the result
\* built in the outer catch carries the message of the error it caught
errorMessage(outcome) ==
    IF outcome = "rateLimit" THEN "Error processing donations: over rate limit"
    ELSE "Error processing donations: execution reverted"

\* a mutant of outerCatch: every error is retried while the budget lasts
outerCatch_RetryAll(pd, outcome) ==
    IF pd.currentRetry < maxRetries
    THEN loopTop([pd EXCEPT !.currentRetry = @ + 1])
    ELSE pdReturn(pd, FALSE, errorMessage(outcome), NoDonationTx)

\* a mutant of outerCatch: a rate-limited pass is retried without being counted
outerCatch_NoCount(pd, outcome) ==
    IF outcome = "rateLimit"
    THEN loopTop(pd)
    ELSE pdReturn(pd, FALSE, errorMessage(outcome), NoDonationTx)

\* the catch of the while loop's try
outerCatch(pd, outcome) ==
    IF outcome = "rateLimit" /\ pd.currentRetry < maxRetries
    THEN loopTop([pd EXCEPT !.currentRetry = @ + 1])
    ELSE pdReturn(pd, FALSE, errorMessage(outcome), NoDonationTx)

\* the head of the allowance for-loop at index pd.i, and what follows the loop
allowanceLoop(pd) ==
    IF pd.i <= Len(pd.froms)
    THEN [pd EXCEPT !.pc = "checkAllowance", !.allowanceRetries = 0]
    ELSE IF Len(pd.froms) = 0
    THEN pdReturn(pd, FALSE, "No donations with sufficient allowance", NoDonationTx)
    ELSE [pd EXCEPT !.pc = "donate"]

\* a mutant of isExecutorDone: the answer of isExecutor is not looked at
isExecutorDone_Unchecked(pd, outcome, isExecutor) ==
    IF outcome = "ok"
    THEN allowanceLoop([pd EXCEPT !.i = 1])
    ELSE IF outcome = "rateLimit" /\ pd.executorRetries < maxExecutorRetries - 1
    THEN [pd EXCEPT !.executorRetries = @ + 1]
    ELSE outerCatch(pd, outcome)

\* eonContract.isExecutor(...) settled
isExecutorDone(pd, outcome, isExecutor) ==
    IF outcome = "ok"
    THEN IF ~isExecutor
         THEN pdReturn(pd, FALSE, "Wallet is not an executor for this contract", NoDonationTx)
         ELSE allowanceLoop([pd EXCEPT !.i = 1])
    ELSE IF outcome = "rateLimit" /\ pd.executorRetries < maxExecutorRetries - 1
    THEN [pd EXCEPT !.executorRetries = @ + 1]
    ELSE outerCatch(pd, outcome)

\* a mutant of spliceEntry: the entry is removed from three arrays at index
\* i and from the amounts at their end
spliceEntry_AmountsPopped(pd) ==
    [pd EXCEPT !.keys = RemoveAt(@, pd.i), !.froms = RemoveAt(@, pd.i),
               !.tos = RemoveAt(@, pd.i), !.donationTimes = RemoveAt(@, pd.i),
               !.usdcAmounts = SubSeq(@, 1, Len(@) - 1)]

\* froms.splice(i, 1) and the same for the three other arrays
spliceEntry(pd) ==
    [pd EXCEPT !.keys = RemoveAt(@, pd.i), !.froms = RemoveAt(@, pd.i),
               !.tos = RemoveAt(@, pd.i), !.donationTimes = RemoveAt(@, pd.i),
               !.usdcAmounts = RemoveAt(@, pd.i)]

\* a mutant of checkAllowanceDone: an entry without allowance stays in the batch
checkAllowanceDone_NoSplice(pd, outcome, allowances) ==
    IF outcome = "ok"
    THEN allowanceLoop([pd EXCEPT !.i = @ + 1])
    ELSE IF outcome = "rateLimit" /\ pd.allowanceRetries < maxAllowanceRetries - 1
    THEN [pd EXCEPT !.allowanceRetries = @ + 1]
    ELSE outerCatch(pd, outcome)

\* this.checkAllowance(froms[i], ...) settled
checkAllowanceDone(pd, outcome, allowances) ==
    IF outcome = "ok"
    THEN IF allowances[pd.froms[pd.i]] < pd.usdcAmounts[pd.i]
         THEN allowanceLoop(spliceEntry(pd))
         ELSE allowanceLoop([pd EXCEPT !.i = @ + 1])
    ELSE IF outcome = "rateLimit" /\ pd.allowanceRetries < maxAllowanceRetries - 1
    THEN [pd EXCEPT !.allowanceRetries = @ + 1]
    ELSE outerCatch(pd, outcome)

\* eonContract.donate(...) settled; tx names the accepted call
donateDone(pd, outcome, tx) ==
    LET counted == [pd EXCEPT !.donateAttempts = @ + 1,
                              !.firstDonateRateLimited =
                                  IF pd.donateAttempts = 0
                                  THEN outcome = "rateLimit" ELSE @]
    IN  IF outcome = "ok"
        THEN [counted EXCEPT !.pc = "wait", !.receiptRetries = 0, !.tx = tx]
        ELSE IF outcome = "rateLimit" /\ pd.currentRetry < maxRetries
        THEN loopTop([counted EXCEPT !.currentRetry = @ + 1])
        ELSE outerCatch(counted, outcome)

\* tx.wait() settled
waitDone(pd, outcome) ==
    IF outcome = "ok"
    THEN pdReturn(pd, TRUE, "Donations processed successfully", pd.tx)
    ELSE IF outcome = "rateLimit" /\ pd.receiptRetries < maxReceiptRetries - 1
    THEN [pd EXCEPT !.receiptRetries = @ + 1]
    ELSE outerCatch(pd, outcome)

\* one accepted donate call
donateCall(pd) ==
    [contractAddress |-> pd.contractAddress, keys |-> pd.keys, froms |-> pd.froms,
     tos |-> pd.tos, usdcAmounts |-> pd.usdcAmounts]

\* the invocation moves on when the RPC call it awaits settles
processDonationsStep(pd, outcome) ==
    CASE pd.pc = "isExecutor" -> isExecutorDone(pd, outcome, env.executor)
      [] pd.pc = "checkAllowance" -> checkAllowanceDone(pd, outcome, env.allowance)
      [] pd.pc = "donate" -> donateDone(pd, outcome, Len(donateCalls) + 1)
      [] pd.pc = "wait" -> waitDone(pd, outcome)
      [] OTHER -> pd

(***************************************************************************)
(* Activations.  JavaScript runs one continuation at a time; an async      *)
(* function gives up control at each await.  A task is one activation      *)
(* suspended at the await its pc names; an action is the continuation      *)
(* that runs when that await resolves.                                     *)
(***************************************************************************)
\* a queued donation (the object processValueTransfer hands to queueDonation)
NoDonation ==
    [txHash |-> "none", from |-> "none", to |-> "none", authorized |-> "none",
     configId |-> NoSeason, donationAmount |-> 0, percentAmount |-> 0,
     assetType |-> "none", seasonId |-> NoSeason, timestamp |-> 0,
     nonce |-> 0,
     \* history: a store call of the goal check of this donation was rejected
     \* or its goal document was malformed
     faulted |-> FALSE]

NewTask ==
    [kind |-> "none", pc |-> "none",
     \* checkAndAdjustDonation / markSeasonCompleted locals
     walletAddress |-> "none", proposedAmount |-> 0, seasonId |-> NoSeason,
     dollarAmount |-> 0, startTimestamp |-> 0, endTimestamp |-> 0,
     fid |-> NoFid, result |-> defaultResponse(0),
     \* handleMinedTransaction / processTransactionQueue locals
     txHash |-> "none", stage |-> "none", logIndex |-> 0,
     donation |-> NoDonation, pd |-> NoPd,
     \* locals of the batch processTransactionQueue
     groups |-> <<>>, contractDonations |-> <<>>, configIds |-> <<>>, i |-> 0,
     \* locals of the block listener and of the block polling callback
     blockNumber |-> 0, startBlock |-> 0, endBlock |-> 0, fetched |-> 0,
     \* processWebhookData: the payload, the field and entry it is at, and
     \* the hashes it handed to the watcher
     webhookData |-> <<>>, field |-> "none", entry |-> 0, handed |-> <<>>]

\* checkAndAdjustDonation up to its first await (getMostRecentSeason)
evalStart(t, walletAddress, proposedAmount) ==
    [t EXCEPT !.pc = "getMostRecentSeason", !.walletAddress = walletAddress,
              !.proposedAmount = proposedAmount,
              !.result = defaultResponse(proposedAmount)]

\* markSeasonCompleted up to its first await (findById)
markStart(t, seasonId) ==
    [t EXCEPT !.pc = "findById", !.seasonId = seasonId]

\* what a step of the season-goal service yields: the activation it leaves
\* and the stores it wrote
seasonEffect(t, records, sent, marked) ==
    [task |-> t, seasonRecords |-> records, notifications |-> sent,
     markDone |-> marked]

\* how a store call settles
StoreOutcomes == {"ok", "error"}

\* getMostRecentSeasonDone without the test of season.active
getMostRecentSeasonDone_IgnoreActive(t, outcome) ==
    LET id     == IF outcome = "error" THEN NoSeason
                  ELSE getMostRecentSeason(t.walletAddress)
        season == seasonRecords[id]
    IN  IF id = NoSeason
        THEN [t EXCEPT !.pc = "return"]
        ELSE IF season.dollarAmount = 0
        THEN [t EXCEPT !.pc = "return"]
        ELSE [t EXCEPT !.pc = "getSeasonTransactions",
                       !.seasonId = id,
                       !.dollarAmount = season.dollarAmount,
                       !.startTimestamp =
                           IF season.startDate # NoDate
                           THEN season.startDate ELSE season.created,
                       !.endTimestamp =
                           IF season.endDate # NoDate
                           THEN season.endDate ELSE Now]

\* checkAndAdjustDonation after getMostRecentSeason settled; a rejected query
\* is caught inside getMostRecentSeason, which then returns null
getMostRecentSeasonDone(t, outcome) ==
    LET id     == IF outcome = "error" THEN NoSeason
                  ELSE getMostRecentSeason(t.walletAddress)
        season == seasonRecords[id]
    IN  IF id = NoSeason
        THEN [t EXCEPT !.pc = "return"]
        ELSE IF season.dollarAmount = 0 \/ ~season.active
        THEN [t EXCEPT !.pc = "return"]
        ELSE [t EXCEPT !.pc = "getSeasonTransactions",
                       !.seasonId = id,
                       !.dollarAmount = season.dollarAmount,
                       !.startTimestamp =
                           IF season.startDate # NoDate
                           THEN season.startDate ELSE season.created,
                       !.endTimestamp =
                           IF season.endDate # NoDate
                           THEN season.endDate ELSE Now]

\* checkAndAdjustDonation after getSeasonTransactions settled (a rejected
\* query is caught inside it and yields no transactions): the conversion of
\* the goal, which throws into the catch block for a malformed dollarAmount,
\* the decision, and the call of markSeasonCompleted when the decision says
\* the goal is met or exceeded
getSeasonTransactionsDone(t, outcome) ==
    LET transactions == IF outcome = "error" THEN <<>>
                        ELSE getSeasonTransactions(t.walletAddress,
                                                   t.startTimestamp,
                                                   t.endTimestamp)
        total  == wrapped(calculateTotalDonation(transactions))
        result == IF t.dollarAmount = Malformed
                  THEN errorResponse(t.proposedAmount)
                  ELSE adjustDecision(total, goalAmountUsdcUnits(t.dollarAmount),
                                      t.proposedAmount, t.seasonId)
    IN  [t EXCEPT !.result = result,
                  !.pc = IF result.isGoalComplete THEN "findById" ELSE "return"]

\* markSeasonCompleted after findById settled; a rejection is caught and
\* markSeasonCompleted returns false
findByIdDone(t, outcome) ==
    IF outcome = "error"
    THEN [t EXCEPT !.pc = "return"]
    ELSE [t EXCEPT !.pc = "findByIdAndUpdate",
                   !.fid = seasonRecords[t.seasonId].fid]

\* markSeasonCompleted after findByIdAndUpdate settled: the document is
\* updated and, when the document read before had a fid, the notification
\* sent; a rejected update is caught and nothing is written or sent
findByIdAndUpdateDone(t, outcome) ==
    IF outcome = "error"
    THEN seasonEffect([t EXCEPT !.pc = "return"], seasonRecords, notifications,
                      markDone)
    ELSE seasonEffect([t EXCEPT !.pc = "return"],
            [seasonRecords EXCEPT ![t.seasonId] =
                [@ EXCEPT !.active = FALSE, !.completed = TRUE,
                          !.lastDonation = Now]],
            [notifications EXCEPT ![t.seasonId] = IF t.fid # NoFid THEN @ + 1 ELSE @],
            [markDone EXCEPT ![t.seasonId] = @ + 1])

SeasonPcs == {"getMostRecentSeason", "getSeasonTransactions", "findById",
              "findByIdAndUpdate"}

\* the activation with the history of its goal check brought up to date
noteFault(t, before, outcome) ==
    [t EXCEPT !.donation.faulted =
        \/ @
        \/ outcome = "error"
        \/ before.pc = "getSeasonTransactions" /\ before.dollarAmount = Malformed]

\* the season-goal service moves on when the store call it awaits settles
seasonStep(t, outcome) ==
    LET r == CASE t.pc = "getMostRecentSeason" ->
                    seasonEffect(getMostRecentSeasonDone(t, outcome),
                                 seasonRecords, notifications, markDone)
              [] t.pc = "getSeasonTransactions" ->
                    seasonEffect(getSeasonTransactionsDone(t, outcome),
                                 seasonRecords, notifications, markDone)
              [] t.pc = "findById" ->
                    seasonEffect(findByIdDone(t, outcome), seasonRecords,
                                 notifications, markDone)
              [] t.pc = "findByIdAndUpdate" -> findByIdAndUpdateDone(t, outcome)
              [] OTHER -> seasonEffect(t, seasonRecords, notifications, markDone)
    IN  [r EXCEPT !.task = noteFault(r.task, t, outcome)]

\* the goal window of a stored goal document, and the sum of the wallet's
\* successful records inside it, read off the stores
WindowStart(season) == IF season.startDate # NoDate THEN season.startDate ELSE season.created
WindowEnd(season) == IF season.endDate # NoDate THEN season.endDate ELSE Now

RECURSIVE SettledInWindow(_, _, _)
SettledInWindow(records, walletAddress, season) ==
    IF records = <<>> THEN 0
    ELSE LET r == Head(records)
             counted == /\ r.from = walletAddress
                        /\ r.status = "success"
                        /\ r.blockTimestamp >= WindowStart(season)
                        /\ r.blockTimestamp <= WindowEnd(season)
         IN  (IF counted THEN r.usdcValue ELSE 0)
                + SettledInWindow(Tail(records), walletAddress, season)

(***************************************************************************)
(* BlockchainWatcher (services/watcher.js): registry, event handler,       *)
(* settlement queue and its drain.                                         *)
(***************************************************************************)
maxTrackedTransactions == 5000

\* the registry entry built from one ExistingWallet document
walletConfig(id, doc) ==
    [id |-> id, target |-> doc.target, percentAmount |-> doc.percentAmount,
     authorized |-> doc.authorized, lastDonation |-> doc.lastDonation,
     timestamp |-> doc.timestamp]

\* walletAddress.toLowerCase(), on the addresses the documents hold
toLowerCase(address) == IF address = "W1" THEN "w1" ELSE address

\* a stored walletAddress that is absent or empty, and one that is not a
\* string (the schema is not strict: the store returns what it holds)
MissingAddress == ""
NonStringAddress == "<number>"

\* refreshWatchedWallets: the active documents, most recent first, the first
\* one of each lowercased address kept.  A document without an address is
\* skipped; at a document whose address is not a string startsWith throws,
\* the catch block logs, and the registry keeps what the loop had set before
refreshWatchedWallets(records) ==
    LET found == {id \in DOMAIN records :
                    /\ records[id].active /\ records[id].percentAmount # 0
                    /\ records[id].walletAddress # MissingAddress}
        throwing == {id \in found : records[id].walletAddress = NonStringAddress}
        reached == {id \in found :
                      \A o \in throwing :
                          records[o].timestamp < records[id].timestamp}
        first(w) == CHOOSE id \in reached :
                        /\ toLowerCase(records[id].walletAddress) = w
                        /\ \A o \in reached :
                              toLowerCase(records[o].walletAddress) = w
                                => records[o].timestamp <= records[id].timestamp
    IN  [w \in {toLowerCase(records[id].walletAddress) : id \in reached} |->
            [walletAddress |-> w,
             configurations |-> <<walletConfig(first(w), records[first(w)])>>]]

\* the guard of processTransactionQueue
drainGuard_IgnoreFlag(flag, queue) == Len(queue) > 0

drainGuard(flag, queue) == ~(flag \/ Len(queue) = 0)

drainTask(donation) ==
    [NewTask EXCEPT !.kind = "drain", !.pc = "save", !.donation = donation,
                    !.txHash = donation.txHash]

\* a mutant of processTransactionQueue: the donation is taken from the end of
\* the queue
processTransactionQueue_Pop(queue, flag, ts) ==
    IF drainGuard(flag, queue)
    THEN [transactionQueue |-> SubSeq(queue, 1, Len(queue) - 1),
          isProcessing |-> TRUE,
          tasks |-> Append(ts, drainTask(queue[Len(queue)]))]
    ELSE [transactionQueue |-> queue, isProcessing |-> flag, tasks |-> ts]

\* processTransactionQueue up to its first await: the guard, the flag, the
\* shift; the drain is then suspended at transactionRecord.save()
processTransactionQueue(queue, flag, ts) ==
    IF drainGuard(flag, queue)
    THEN [transactionQueue |-> Tail(queue), isProcessing |-> TRUE,
          tasks |-> Append(ts, drainTask(Head(queue)))]
    ELSE [transactionQueue |-> queue, isProcessing |-> flag, tasks |-> ts]

\* queueDonation: push, then start the drain unless one is processing
queueDonation(queue, flag, ts, donation) ==
    IF ~flag
    THEN processTransactionQueue(Append(queue, donation), flag, ts)
    ELSE [transactionQueue |-> Append(queue, donation), isProcessing |-> flag,
          tasks |-> ts]

\* the processed set after a hash is added: oldest entries go beyond the cap
addProcessed(processed, txHash) ==
    LET added == IF \E k \in 1 .. Len(processed) : processed[k] = txHash
                 THEN processed ELSE Append(processed, txHash)
    IN  IF Len(added) > maxTrackedTransactions
        THEN SubSeq(added, Len(added) - maxTrackedTransactions + 1, Len(added))
        ELSE added

hasProcessed(processed, txHash) ==
    \E k \in 1 .. Len(processed) : processed[k] = txHash

\* the mined transactions the node can deliver
TxHashes == {"h1", "h2"}
NoLog == [token |-> "none", to |-> "none", value |-> 0, blockTimestamp |-> 0]
Transaction(txHash) ==
    IF txHash = "h1"
    THEN [to |-> "w1", value |-> 5400,
          logs |-> <<[token |-> "USDC", to |-> "w1", value |-> 160,
                      blockTimestamp |-> 2]>>]
    ELSE IF txHash = "h0"
    THEN [to |-> "w1", value |-> 0,
          logs |-> <<[token |-> "USDC", to |-> "w1", value |-> 0,
                      blockTimestamp |-> 1]>>]
    ELSE [to |-> "x1", value |-> 0,
          logs |-> <<[token |-> "USDC", to |-> "w1", value |-> 160,
                      blockTimestamp |-> 3]>>]

\* the handler once its current stage is over: after the native transfer the
\* receipt logs follow; after the last log the handler returns
nextStage(t) ==
    IF t.stage = "native"
    THEN [t EXCEPT !.pc = "getReceiptWithRetries", !.stage = "logs"]
    ELSE [t EXCEPT !.pc = "finished"]

\* processValueTransfer from the registry lookup to the goal check: the
\* donation of the wallet's configuration, or the end of the stage
processValueTransfer(t, registry, recipient, valueAmount, assetType, blockTimestamp) ==
    IF recipient \notin DOMAIN registry
    THEN nextStage(t)
    ELSE LET config == registry[recipient].configurations[1]
             amount == computeDonation(assetType, valueAmount,
                                       config.percentAmount, env.etherPrice)
         IN  IF amount > 0
             THEN evalStart([t EXCEPT !.donation =
                                [txHash |-> t.txHash, from |-> recipient,
                                 to |-> config.target,
                                 authorized |-> config.authorized,
                                 configId |-> config.id,
                                 donationAmount |-> amount,
                                 percentAmount |-> config.percentAmount,
                                 assetType |-> assetType, seasonId |-> NoSeason,
                                 timestamp |-> blockTimestamp, nonce |-> 0,
                                 faulted |-> FALSE]],
                            recipient, amount)
             ELSE nextStage(t)

\* put task t at position i, or drop it when it has finished
Settle(ts, i, t) ==
    IF t.pc = "finished" THEN RemoveAt(ts, i) ELSE [ts EXCEPT ![i] = t]

\* handleMinedTransaction(txData) up to its first await
MinedTransaction(txHash) ==
    LET tx == Transaction(txHash)
        t0 == [NewTask EXCEPT !.kind = "handler", !.txHash = txHash]
        t1 == IF tx.to \in DOMAIN watchedWallets /\ tx.value # 0
              THEN [t0 EXCEPT !.pc = "getTransactionReceipt", !.stage = "native"]
              ELSE [t0 EXCEPT !.pc = "getReceiptWithRetries", !.stage = "logs"]
    IN  /\ calls < MaxDeliveries
        /\ calls' = calls + 1
        /\ IF hasProcessed(processedTransactions, txHash)
           THEN UNCHANGED <<processedTransactions, tasks>>
           ELSE /\ processedTransactions' = addProcessed(processedTransactions, txHash)
                /\ tasks' = Append(tasks, t1)
        /\ UNCHANGED <<calc, seasonRecords, txRecords, notifications, markDone,
                       watchedWallets, transactionQueue, isProcessing, env, blockVars,
                       donateCalls, rpcFaults>>

\* checkTransaction after getTransactionReceipt settled
GetTransactionReceiptDone(i, outcome) ==
    LET t == tasks[i]
        tx == Transaction(t.txHash)
    IN  /\ t.kind = "handler" /\ t.pc = "getTransactionReceipt"
        /\ tasks' = [tasks EXCEPT ![i] =
                IF outcome = "ok"
                THEN processValueTransfer(t, watchedWallets, tx.to, tx.value,
                                          "ETH", Now)
                ELSE nextStage(t)]
        /\ UNCHANGED <<calc, seasonRecords, txRecords, notifications, markDone,
                       calls, pipelineVars>>

\* handleMinedTransaction after getReceiptWithRetries settled:
\* processReceiptLogsForERC20 on the receipt's transfer log
GetReceiptWithRetriesDone(i, outcome) ==
    LET t == tasks[i]
        log == Transaction(t.txHash).logs[1]
        t1 == [t EXCEPT !.logIndex = 1]
    IN  /\ t.kind = "handler" /\ t.pc = "getReceiptWithRetries"
        /\ tasks' = Settle(tasks, i,
                IF outcome = "ok" /\ log.token \in {"USDC", "WETH"}
                       /\ log.to \in DOMAIN watchedWallets
                THEN processValueTransfer(t1, watchedWallets, log.to, log.value,
                                          log.token, log.blockTimestamp)
                ELSE [t EXCEPT !.pc = "finished"])
        /\ UNCHANGED <<calc, seasonRecords, txRecords, notifications, markDone,
                       calls, pipelineVars>>

\* a mutant of afterSeasonCheck: a result without a goal id also skips the
\* donation
afterSeasonCheck_SkipNoSeason(ts, i, t, queue, flag) ==
    LET seasonCheck == t.result
        skip == \/ seasonCheck.needsAdjustment /\ seasonCheck.adjustedAmount = 0
                \/ seasonCheck.seasonId = NoSeason
        donation == [t.donation EXCEPT
                        !.donationAmount = IF seasonCheck.needsAdjustment
                                           THEN seasonCheck.adjustedAmount ELSE @,
                        !.seasonId = IF seasonCheck.isGoalComplete
                                     THEN seasonCheck.seasonId ELSE NoSeason]
        rest == Settle(ts, i, nextStage(t))
    IN  IF skip
        THEN [transactionQueue |-> queue, isProcessing |-> flag, tasks |-> rest]
        ELSE queueDonation(queue, flag, rest, donation)

\* processValueTransfer after checkAndAdjustDonation returned: the donation
\* is skipped (goal already met) or queued with the adjusted amount
afterSeasonCheck(ts, i, t, queue, flag) ==
    LET seasonCheck == t.result
        skip == seasonCheck.needsAdjustment /\ seasonCheck.adjustedAmount = 0
        donation == [t.donation EXCEPT
                        !.donationAmount = IF seasonCheck.needsAdjustment
                                           THEN seasonCheck.adjustedAmount ELSE @,
                        !.seasonId = IF seasonCheck.isGoalComplete
                                     THEN seasonCheck.seasonId ELSE NoSeason]
        rest == Settle(ts, i, nextStage(t))
    IN  IF skip
        THEN [transactionQueue |-> queue, isProcessing |-> flag, tasks |-> rest]
        ELSE queueDonation(queue, flag, rest, donation)

\* the goal check of a handler moves on; when it returns, processValueTransfer
\* goes on in the same turn
HandlerSeasonStep(i, outcome) ==
    LET r == seasonStep(tasks[i], outcome)
        after == IF r.task.pc = "return"
                 THEN afterSeasonCheck(tasks, i, r.task, transactionQueue,
                                       isProcessing)
                 ELSE [transactionQueue |-> transactionQueue,
                       isProcessing |-> isProcessing,
                       tasks |-> [tasks EXCEPT ![i] = r.task]]
    IN  /\ outcome # "ok" => rpcFaults < MaxRpcFaults
        /\ rpcFaults' = IF outcome = "ok" THEN rpcFaults ELSE rpcFaults + 1
        /\ tasks[i].kind = "handler"
        /\ tasks[i].pc \in SeasonPcs
        /\ seasonRecords' = r.seasonRecords
        /\ notifications' = r.notifications
        /\ markDone' = r.markDone
        /\ transactionQueue' = after.transactionQueue
        /\ isProcessing' = after.isProcessing
        /\ tasks' = after.tasks
        /\ UNCHANGED <<calc, txRecords, calls, watchedWallets,
                       processedTransactions, env, blockVars, donateCalls>>

\* the record with this txHash, as findOneAndUpdate({txHash}, update) finds it
recordIndex(records, txHash) ==
    CHOOSE k \in 1 .. Len(records) :
        /\ records[k].txHash = txHash
        /\ \A j \in 1 .. k - 1 : records[j].txHash # txHash

hasRecord(records, txHash) == \E k \in 1 .. Len(records) : records[k].txHash = txHash

\* TransactionRecord.findOneAndUpdate({txHash}, {status, ...})
findOneAndUpdate(records, txHash, status, donationTxHash, error) ==
    IF hasRecord(records, txHash)
    THEN [records EXCEPT ![recordIndex(records, txHash)] =
            [@ EXCEPT !.status = status,
                      !.donationTxHash = IF status = "success"
                                         THEN donationTxHash ELSE @,
                      !.error = IF status = "failed" THEN error ELSE @]]
    ELSE records

\* the drain after processDonations returned: which update it awaits next
afterProcessDonations(t, pd) ==
    [t EXCEPT !.pd = pd,
              !.pc = IF pd.pc # "done" THEN "processDonations"
                     ELSE IF pd.result.success THEN "updateSuccess"
                     ELSE "updateFailed"]

\* a mutant of drainFinally: the flag is left set when the drain ends
drainFinally_KeepFlag(i) ==
    LET next == processTransactionQueue(transactionQueue, TRUE, RemoveAt(tasks, i))
    IN  /\ transactionQueue' = next.transactionQueue
        /\ isProcessing' = next.isProcessing
        /\ tasks' = next.tasks

\* the finally block of processTransactionQueue: the flag is cleared and the
\* next queued donation, if any, starts its own drain
drainFinally(i) ==
    LET next == processTransactionQueue(transactionQueue, FALSE, RemoveAt(tasks, i))
    IN  /\ transactionQueue' = next.transactionQueue
        /\ isProcessing' = next.isProcessing
        /\ tasks' = next.tasks

\* processTransactionQueue after transactionRecord.save() settled: a second
\* record of the same txHash breaks the unique index and lands in the catch
SaveDone(i) ==
    LET t == tasks[i]
        d == t.donation
        pd == processDonationsStart(d.authorized, <<d.txHash>>, <<d.from>>,
                                    <<d.to>>, <<d.timestamp>>, <<d.donationAmount>>)
    IN  /\ t.kind = "drain" /\ t.pc = "save"
        /\ IF hasRecord(txRecords, d.txHash)
           THEN /\ tasks' = [tasks EXCEPT ![i].pc = "updateFailedCatch"]
                /\ UNCHANGED txRecords
           ELSE /\ txRecords' = Append(txRecords,
                        txDocument(d.txHash, d.from, d.donationAmount,
                                   d.timestamp, "pending"))
                /\ tasks' = [tasks EXCEPT ![i] = afterProcessDonations(t, pd)]
        /\ UNCHANGED <<calc, seasonRecords, notifications, markDone, calls,
                       pipelineVars>>

\* processDonations, called by the drain, after the RPC call it awaits settled
ProcessDonationsStep(i, outcome) ==
    LET t == tasks[i]
        pd == processDonationsStep(t.pd, outcome)
    IN  /\ t.kind = "drain" /\ t.pc = "processDonations"
        /\ outcome # "ok" => rpcFaults < MaxRpcFaults
        /\ rpcFaults' = IF outcome = "ok" THEN rpcFaults ELSE rpcFaults + 1
        /\ donateCalls' = IF t.pd.pc = "donate" /\ outcome = "ok"
                          THEN Append(donateCalls, donateCall(t.pd))
                          ELSE donateCalls
        /\ tasks' = [tasks EXCEPT ![i] = afterProcessDonations(t, pd)]
        /\ UNCHANGED <<calc, seasonRecords, txRecords, notifications, markDone,
                       calls, watchedWallets, processedTransactions,
                       transactionQueue, isProcessing, env, blockVars>>

\* the drain after the success update settled: the registry's lastDonation is
\* set and the configuration document's update is awaited
UpdateSuccessDone(i) ==
    LET t == tasks[i]
        d == t.donation
        known == /\ d.from \in DOMAIN watchedWallets
                 /\ watchedWallets[d.from].configurations[1].id = d.configId
    IN  /\ t.kind = "drain" /\ t.pc = "updateSuccess"
        /\ txRecords' = findOneAndUpdate(txRecords, d.txHash, "success",
                                         t.pd.result.transactionHash, "none")
        /\ IF known
           THEN /\ watchedWallets' = [watchedWallets EXCEPT
                        ![d.from].configurations[1].lastDonation = d.timestamp]
                /\ tasks' = [tasks EXCEPT ![i].pc = "updateLastDonation"]
                /\ UNCHANGED <<transactionQueue, isProcessing>>
           ELSE /\ drainFinally(i)
                /\ UNCHANGED watchedWallets
        /\ UNCHANGED <<calc, seasonRecords, notifications, markDone, calls,
                       processedTransactions, env, blockVars, donateCalls, rpcFaults>>

\* the drain after ExistingWallet.findByIdAndUpdate(config.id, {lastDonation})
UpdateLastDonationDone(i) ==
    LET t == tasks[i]
    IN  /\ t.kind = "drain" /\ t.pc = "updateLastDonation"
        /\ seasonRecords' = [seasonRecords EXCEPT
                ![t.donation.configId].lastDonation = t.donation.timestamp]
        /\ drainFinally(i)
        /\ UNCHANGED <<calc, txRecords, notifications, markDone, calls,
                       watchedWallets, processedTransactions, env, blockVars, donateCalls, rpcFaults>>

\* the drain after the failure update settled (failed result, or the catch)
UpdateFailedDone(i) ==
    LET t == tasks[i]
    IN  /\ t.kind = "drain" /\ t.pc \in {"updateFailed", "updateFailedCatch"}
        /\ txRecords' = findOneAndUpdate(txRecords, t.donation.txHash, "failed",
                            NoDonationTx,
                            IF t.pc = "updateFailed" THEN t.pd.result.message
                            ELSE "duplicate key")
        /\ drainFinally(i)
        /\ UNCHANGED <<calc, seasonRecords, notifications, markDone, calls,
                       watchedWallets, processedTransactions, env, blockVars, donateCalls, rpcFaults>>

\* startProcessingLoop: the interval callback calls processTransactionQueue
ProcessingLoopTick ==
    LET next == processTransactionQueue(transactionQueue, isProcessing, tasks)
    IN  /\ transactionQueue' = next.transactionQueue
        /\ isProcessing' = next.isProcessing
        /\ tasks' = next.tasks
        /\ UNCHANGED <<calc, seasonRecords, txRecords, notifications, markDone,
                       calls, watchedWallets, processedTransactions, env, blockVars,
                       donateCalls, rpcFaults>>

\* startWalletRefreshLoop: the interval callback rebuilds the registry
WalletRefreshTick ==
    /\ watchedWallets' = refreshWatchedWallets(seasonRecords)
    /\ UNCHANGED <<calc, seasonRecords, txRecords, tasks, notifications,
                   markDone, calls, processedTransactions, transactionQueue,
                   isProcessing, env, blockVars, donateCalls, rpcFaults>>

(***************************************************************************)
(* Spec: the watcher of services/watcher.js with its season-goal and       *)
(* chain services.                                                         *)
(***************************************************************************)
Allowances == {0, 1000}

\* the block bookkeeping of a watcher that scans no blocks
BlocksIdle ==
    /\ lastProcessedBlock = 0
    /\ blockNumber = 0
    /\ scannedBlocks = <<>>

PipelineIdle ==
    /\ watchedWallets = <<>>
    /\ processedTransactions = <<>>
    /\ transactionQueue = <<>>
    /\ isProcessing = FALSE
    /\ env = [executor |-> TRUE, allowance |-> [w \in Wallets |-> 0],
              etherPrice |-> NoPrice]
    /\ donateCalls = <<>>
    /\ rpcFaults = 0
    /\ BlocksIdle

\* the stored goal of the watched wallet: 100 units, or a malformed amount
WatcherGoalDollarAmounts == {100, Malformed}

Init ==
    /\ calc = NoCalc
    /\ \E g \in WatcherGoalDollarAmounts :
          seasonRecords = [id \in SeasonIds |-> seasonDocument(g, TRUE, 7)]
    /\ txRecords = <<>>
    /\ tasks = <<>>
    /\ notifications = [id \in SeasonIds |-> 0]
    /\ markDone = [id \in SeasonIds |-> 0]
    /\ calls = 0
    /\ watchedWallets = refreshWatchedWallets(seasonRecords)
    /\ processedTransactions = <<>>
    /\ transactionQueue = <<>>
    /\ isProcessing = FALSE
    /\ \E e \in BOOLEAN, a \in Allowances :
          env = [executor |-> e, allowance |-> [w \in Wallets |-> a],
                 etherPrice |-> NoPrice]
    /\ donateCalls = <<>>
    /\ rpcFaults = 0
    /\ BlocksIdle

Next ==
    \/ \E h \in TxHashes : MinedTransaction(h)
    \/ \E i \in 1 .. Len(tasks), o \in {"ok", "error"} : GetTransactionReceiptDone(i, o)
    \/ \E i \in 1 .. Len(tasks), o \in {"ok", "error"} : GetReceiptWithRetriesDone(i, o)
    \/ \E i \in 1 .. Len(tasks), o \in StoreOutcomes : HandlerSeasonStep(i, o)
    \/ \E i \in 1 .. Len(tasks) : SaveDone(i)
    \/ \E i \in 1 .. Len(tasks), o \in RpcOutcomes : ProcessDonationsStep(i, o)
    \/ \E i \in 1 .. Len(tasks) : UpdateSuccessDone(i)
    \/ \E i \in 1 .. Len(tasks) : UpdateLastDonationDone(i)
    \/ \E i \in 1 .. Len(tasks) : UpdateFailedDone(i)
    \/ ProcessingLoopTick
    \/ WalletRefreshTick

Spec == Init /\ [][Next]_vars

\* the settlement records of a source transaction hash, and the accepted
\* donate calls that carry an intent of that hash
RecordsOf(txHash) == {k \in 1 .. Len(txRecords) : txRecords[k].txHash = txHash}
DonateCallsOf(txHash) ==
    {k \in 1 .. Len(donateCalls) :
        \E j \in 1 .. Len(donateCalls[k].keys) : donateCalls[k].keys[j] = txHash}
DrainTasks == {i \in 1 .. Len(tasks) : tasks[i].kind \in {"drain", "mdrain"}}

\* C1: whatever events are delivered (a hash delivered twice, a hash that
\* carries both a native transfer and a token log), at most one settlement
\* record exists for a source transaction hash and at most one donate call is
\* accepted for it.
C1_OneRecordOneDonate ==
    \A h \in TxHashes :
        /\ Cardinality(RecordsOf(h)) <= 1
        /\ Cardinality(DonateCallsOf(h)) <= 1

\* C3: for a wallet with a goal G, the successfully settled donation amounts
\* inside the goal window never sum to more than G.
C3_SettledWithinGoal ==
    \A id \in DOMAIN seasonRecords :
        seasonRecords[id].dollarAmount > 0
            => SettledInWindow(txRecords, seasonRecords[id].walletAddress,
                               seasonRecords[id])
                  <= goalAmountUsdcUnits(seasonRecords[id].dollarAmount)

\* C7: when the first donate attempt of a settlement failed with a rate-limit
\* error and a retry succeeded, exactly one donate call was accepted for the
\* intent and its record ends in status success.
C7_RetryOneAcceptedDonate ==
    \A i \in DrainTasks :
        (/\ tasks[i].pd.firstDonateRateLimited
         /\ tasks[i].pd.pc = "done"
         /\ tasks[i].pd.result.success)
            => /\ Cardinality(DonateCallsOf(tasks[i].txHash)) = 1
               /\ tasks[i].pc = "updateLastDonation"
                    => \A k \in RecordsOf(tasks[i].txHash) :
                          txRecords[k].status = "success"

\* C9: at most one drain of the queue is active at a time, and the
\* isProcessing flag is set exactly while one is.
C9_SingleDrain ==
    /\ Cardinality(DrainTasks) <= 1
    /\ isProcessing <=> DrainTasks # {}

\* C9's case: a donation was queued while a drain was active
C9_Witness ==
    /\ isProcessing
    /\ DrainTasks # {}
    /\ Len(transactionQueue) > 0

\* the donation of a source transaction is in the queue or in a drain, with
\* this amount
Enqueued(queue, ts, txHash, amount) ==
    \/ \E k \in 1 .. Len(queue) :
          queue[k].txHash = txHash /\ queue[k].donationAmount = amount
    \/ \E k \in 1 .. Len(ts) :
          /\ ts[k].kind = "drain"
          /\ ts[k].donation.txHash = txHash
          /\ ts[k].donation.donationAmount = amount

\* C11: a goal check in which a store call was rejected, or which met a
\* malformed goal document, still returns a result whose adjusted amount is
\* the proposed amount, and in the same turn the handler enqueues the
\* donation with that amount.
C11_FallbackProceeds ==
    [][\A i \in 1 .. Len(tasks), o \in StoreOutcomes :
          (/\ tasks[i].kind = "handler"
           /\ tasks[i].pc \in SeasonPcs
           /\ HandlerSeasonStep(i, o)
           /\ seasonStep(tasks[i], o).task.donation.faulted)
             => LET r == seasonStep(tasks[i], o).task
                IN  /\ r.pc = "return"
                    /\ r.result.adjustedAmount = tasks[i].proposedAmount
                    /\ Enqueued(transactionQueue', tasks', tasks[i].txHash,
                                tasks[i].proposedAmount)]_vars

\* C11's case: a donation whose goal check failed is in the queue or in a
\* drain
C11_Witness ==
    \/ \E k \in 1 .. Len(transactionQueue) : transactionQueue[k].faulted
    \/ \E k \in 1 .. Len(tasks) :
          tasks[k].kind = "drain" /\ tasks[k].donation.faulted

\* q is the beginning of r
IsPrefix(q, r) == Len(q) <= Len(r) /\ SubSeq(r, 1, Len(q)) = q

\* C17: donations leave the queue in the order in which they were queued:
\* in every step the waiting donations keep their order, and when one is
\* dequeued it is the oldest one, handed to the drain that saves its record.
C17_Fifo ==
    [][transactionQueue # <<>>
          => \/ IsPrefix(transactionQueue, transactionQueue')
             \/ /\ IsPrefix(Tail(transactionQueue), transactionQueue')
                /\ \E i \in 1 .. Len(tasks') :
                      /\ tasks'[i].kind = "drain"
                      /\ tasks'[i].pc = "save"
                      /\ tasks'[i].donation = Head(transactionQueue)]_vars

\* C17's case: a drain took the oldest of several waiting donations, and
\* another one is still waiting behind it
C17_Witness ==
    /\ Len(txRecords) >= 1
    /\ Len(transactionQueue) >= 1
    /\ \E i \in 1 .. Len(tasks) :
          /\ tasks[i].kind = "drain"
          /\ tasks[i].pc = "save"
          /\ tasks[i].donation # transactionQueue[1]

\* C18: on every path by which a drain ends (success, failed result, thrown
\* exception, duplicate record) the isProcessing flag is cleared: after the
\* step either the flag is down and nothing waits, or the next waiting
\* donation has started its own drain.
C18_FlagClearedOnExit ==
    [][\A i \in 1 .. Len(tasks) :
          (/\ tasks[i].kind \in {"drain", "mdrain"}
           /\ \A j \in 1 .. Len(tasks') : tasks'[j] # tasks[i]
           /\ ~\E j \in 1 .. Len(tasks') :
                  /\ tasks'[j].kind = tasks[i].kind
                  /\ tasks'[j].txHash = tasks[i].txHash
                  /\ tasks'[j].pc # "save")
             => \/ ~isProcessing' /\ transactionQueue' = <<>>
                \/ /\ isProcessing'
                   /\ \E j \in 1 .. Len(tasks'), k \in 1 .. Len(transactionQueue) :
                         /\ tasks'[j].kind = tasks[i].kind
                         /\ tasks'[j].pc = "save"
                         /\ tasks'[j].donation = transactionQueue[k]]_vars

\* C18's case: the first donation ended as failed, the one behind it was
\* given its record, and the flag is down
C18_Witness ==
    /\ ~isProcessing
    /\ \E a, b \in 1 .. Len(txRecords) :
          /\ a < b
          /\ txRecords[a].status = "failed"
          /\ txRecords[a].error # "duplicate key"
          /\ txRecords[b].status \in {"success", "failed"}

\* C19: when the operator wallet is not an executor of the contract,
\* processDonations never gets past the isExecutor check: no allowance is
\* read, no donate call is made, every invocation that has returned reports
\* a failure, and no record is marked success.
C19_NotExecutorNoDonate ==
    ~env.executor
        => /\ donateCalls = <<>>
           /\ \A i \in 1 .. Len(tasks) :
                 /\ tasks[i].pd.pc \notin {"checkAllowance", "donate", "wait"}
                 /\ tasks[i].pd.pc = "done" => ~tasks[i].pd.result.success
           /\ \A k \in 1 .. Len(txRecords) : txRecords[k].status # "success"

\* C19's case: isExecutor answered false and the invocation returned its
\* failure result, which the drain has written to the record
C19_Witness ==
    /\ ~env.executor
    /\ \E k \in 1 .. Len(txRecords) :
          /\ txRecords[k].status = "failed"
          /\ txRecords[k].error = "Wallet is not an executor for this contract"

\* The part of C25 that the code does deliver: in the drain of watcher.js an
\* accepted donate call never names a hash whose record is already failed.
C25_WatcherNoResubmit ==
    [][\A k \in 1 .. Len(txRecords) :
          (txRecords[k].status = "failed" /\ Len(donateCalls') > Len(donateCalls))
             => \A j \in 1 .. Len(donateCalls'[Len(donateCalls')].keys) :
                   donateCalls'[Len(donateCalls')].keys[j] # txRecords[k].txHash]_vars

\* C12: a transaction hash is in the processed set only when a terminal
\* outcome (success or failed) has been persisted for it, so that an event
\* whose processing stopped early is handled when it is delivered again.
C12_ProcessedAfterTerminal ==
    \A k \in 1 .. Len(processedTransactions) :
        \E r \in RecordsOf(processedTransactions[k]) :
            txRecords[r].status \in {"success", "failed"}

\* C13: when the drain saves a record for a transaction hash that already has
\* one, the unique index rejects the save; from there to the end of that drain
\* no donate call is made and the record that exists keeps its status and fields.
C13_DuplicateLeavesRecord ==
    [][\A i \in 1 .. Len(tasks) :
          (/\ tasks[i].kind = "drain" /\ tasks[i].pc = "updateFailedCatch"
           /\ UpdateFailedDone(i))
             => /\ txRecords' = txRecords
                /\ donateCalls' = donateCalls]_vars

(***************************************************************************)
(* MoralisWatcher (check-specific-tx.js): the token-transfer handler and   *)
(* the drain, which runs the goal check itself.                            *)
(***************************************************************************)
moralisDrainTask(donation) ==
    [NewTask EXCEPT !.kind = "mdrain", !.pc = "save", !.donation = donation,
                    !.txHash = donation.txHash]

\* MoralisWatcher.processTransactionQueue up to its first await.  A dequeued
\* donation whose hash is in the processed set is dropped; the finally block
\* then goes on with the rest of the queue.
RECURSIVE moralisProcessTransactionQueue(_, _, _, _)
moralisProcessTransactionQueue(queue, flag, ts, processed) ==
    IF ~drainGuard(flag, queue)
    THEN [transactionQueue |-> queue, isProcessing |-> flag, tasks |-> ts]
    ELSE IF hasProcessed(processed, Head(queue).txHash)
    THEN moralisProcessTransactionQueue(Tail(queue), FALSE, ts, processed)
    ELSE [transactionQueue |-> Tail(queue), isProcessing |-> TRUE,
          tasks |-> Append(ts, moralisDrainTask(Head(queue)))]

\* MoralisWatcher.queueDonation
moralisQueueDonation(queue, flag, ts, processed, donation) ==
    IF ~flag
    THEN moralisProcessTransactionQueue(Append(queue, donation), flag, ts, processed)
    ELSE [transactionQueue |-> Append(queue, donation), isProcessing |-> flag,
          tasks |-> ts]

\* processERC20Transfer(...) up to its first await: the processed set and the
\* activations it leaves
moralisERC20TransferStart(txHash, processed, ts) ==
    LET log == Transaction(txHash).logs[1]
        watched == log.to \in DOMAIN watchedWallets
        config == watchedWallets[log.to].configurations[1]
        amount == finalDonationAmount(log.value, config.percentAmount)
        t == evalStart([NewTask EXCEPT
                           !.kind = "mhandler", !.txHash = txHash,
                           !.donation =
                               [txHash |-> txHash, from |-> log.to,
                                to |-> config.target,
                                authorized |-> config.authorized,
                                configId |-> config.id,
                                donationAmount |-> amount,
                                percentAmount |-> config.percentAmount,
                                assetType |-> "USDC", seasonId |-> NoSeason,
                                timestamp |-> log.blockTimestamp, nonce |-> 0,
                                faulted |-> FALSE]],
                       log.to, amount)
    IN  IF hasProcessed(processed, txHash)
        THEN [processedTransactions |-> processed, tasks |-> ts]
        ELSE IF log.value = 0
        THEN [processedTransactions |-> Append(processed, txHash), tasks |-> ts]
        ELSE IF ~watched
        THEN [processedTransactions |-> processed, tasks |-> ts]
        ELSE IF log.token = "USDC" /\ config.percentAmount > 0 /\ amount > 0
        THEN [processedTransactions |-> processed, tasks |-> Append(ts, t)]
        ELSE [processedTransactions |-> Append(processed, txHash), tasks |-> ts]

\* a caller invokes processERC20Transfer
MoralisERC20Transfer(txHash) ==
    LET r == moralisERC20TransferStart(txHash, processedTransactions, tasks)
    IN  /\ calls < MaxDeliveries
        /\ calls' = calls + 1
        /\ processedTransactions' = r.processedTransactions
        /\ tasks' = r.tasks
        /\ UNCHANGED <<calc, seasonRecords, txRecords, notifications, markDone,
                       watchedWallets, transactionQueue, isProcessing, env,
                       blockVars, donateCalls, rpcFaults>>

\* processERC20Transfer after checkAndAdjustDonation returned: the donation
\* is skipped or queued, then the hash is added to the processed set
moralisAfterSeasonCheck(ts, i, t, queue, flag, processed) ==
    LET seasonCheck == t.result
        skip == seasonCheck.needsAdjustment /\ seasonCheck.adjustedAmount = 0
        donation == [t.donation EXCEPT
                        !.donationAmount = IF seasonCheck.needsAdjustment
                                           THEN seasonCheck.adjustedAmount ELSE @,
                        !.seasonId = seasonCheck.seasonId]
        rest == RemoveAt(ts, i)
    IN  IF skip
        THEN [transactionQueue |-> queue, isProcessing |-> flag, tasks |-> rest]
        ELSE moralisQueueDonation(queue, flag, rest, processed, donation)

\* the goal check of a token-transfer handler moves on
MoralisHandlerSeasonStep(i, outcome) ==
    LET r == seasonStep(tasks[i], outcome)
        returned == r.task.pc = "return"
        after == IF returned
                 THEN moralisAfterSeasonCheck(tasks, i, r.task, transactionQueue,
                                              isProcessing, processedTransactions)
                 ELSE [transactionQueue |-> transactionQueue,
                       isProcessing |-> isProcessing,
                       tasks |-> [tasks EXCEPT ![i] = r.task]]
    IN  /\ outcome # "ok" => rpcFaults < MaxRpcFaults
        /\ rpcFaults' = IF outcome = "ok" THEN rpcFaults ELSE rpcFaults + 1
        /\ tasks[i].kind = "mhandler"
        /\ tasks[i].pc \in SeasonPcs
        /\ seasonRecords' = r.seasonRecords
        /\ notifications' = r.notifications
        /\ markDone' = r.markDone
        /\ transactionQueue' = after.transactionQueue
        /\ isProcessing' = after.isProcessing
        /\ tasks' = after.tasks
        /\ processedTransactions' =
              IF returned /\ ~hasProcessed(processedTransactions, tasks[i].txHash)
              THEN Append(processedTransactions, tasks[i].txHash)
              ELSE processedTransactions
        /\ UNCHANGED <<calc, txRecords, calls, watchedWallets, env, blockVars, donateCalls>>

\* the finally block of MoralisWatcher.processTransactionQueue
moralisDrainFinally(i) ==
    LET next == moralisProcessTransactionQueue(transactionQueue, FALSE,
                                               RemoveAt(tasks, i),
                                               processedTransactions)
    IN  /\ transactionQueue' = next.transactionQueue
        /\ isProcessing' = next.isProcessing
        /\ tasks' = next.tasks

\* the drain after transactionRecord.save() settled: the goal check starts,
\* for the wallet named by donation.to
MoralisSaveDone(i) ==
    LET t == tasks[i]
        d == t.donation
    IN  /\ t.kind = "mdrain" /\ t.pc = "save"
        /\ IF hasRecord(txRecords, d.txHash)
           THEN /\ tasks' = [tasks EXCEPT ![i].pc = "updateFailedCatch"]
                /\ UNCHANGED txRecords
           ELSE /\ txRecords' = Append(txRecords,
                        txDocument(d.txHash, d.from, d.donationAmount,
                                   d.timestamp, "pending"))
                /\ tasks' = [tasks EXCEPT ![i] = evalStart(t, d.to, d.donationAmount)]
        /\ UNCHANGED <<calc, seasonRecords, notifications, markDone, calls,
                       pipelineVars>>

\* the drain's own code after processDonations returned: a success is
\* written to the record; a failure is only logged and the drain ends
moralisAfterProcessDonations(t, pd) ==
    [t EXCEPT !.pd = pd,
              !.pc = IF pd.pc # "done" THEN "processDonations"
                     ELSE IF pd.result.success THEN "updateSuccess"
                     ELSE "finished"]

\* the drain after checkAndAdjustDonation returned
moralisDrainAfterSeasonCheck(t) ==
    LET seasonCheck == t.result
        d == t.donation
    IN  IF seasonCheck.needsAdjustment
        THEN IF seasonCheck.adjustedAmount = 0
             THEN [t EXCEPT !.pc = "updateGoalMet"]
             ELSE [t EXCEPT !.pc = "updateAdjusted"]
        ELSE moralisAfterProcessDonations(t,
                processDonationsStart(d.authorized, <<d.txHash>>, <<d.from>>,
                                      <<d.to>>, <<d.timestamp>>,
                                      <<d.donationAmount>>))

\* put the drain at position i, or run its finally block when it has ended
moralisSettle(i, t) ==
    IF t.pc = "finished"
    THEN moralisDrainFinally(i)
    ELSE /\ tasks' = [tasks EXCEPT ![i] = t]
         /\ UNCHANGED <<transactionQueue, isProcessing>>

\* the goal check of a drain moves on
MoralisDrainSeasonStep(i, outcome) ==
    LET r == seasonStep(tasks[i], outcome)
    IN  /\ outcome # "ok" => rpcFaults < MaxRpcFaults
        /\ rpcFaults' = IF outcome = "ok" THEN rpcFaults ELSE rpcFaults + 1
        /\ tasks[i].kind = "mdrain"
        /\ tasks[i].pc \in SeasonPcs
        /\ seasonRecords' = r.seasonRecords
        /\ notifications' = r.notifications
        /\ markDone' = r.markDone
        /\ moralisSettle(i, IF r.task.pc = "return"
                            THEN moralisDrainAfterSeasonCheck(r.task)
                            ELSE r.task)
        /\ UNCHANGED <<calc, txRecords, calls, watchedWallets,
                       processedTransactions, env, blockVars, donateCalls>>

\* processDonations, called by the Moralis drain, moves on
MoralisProcessDonationsStep(i, outcome) ==
    LET t == tasks[i]
        pd == processDonationsStep(t.pd, outcome)
    IN  /\ t.kind = "mdrain" /\ t.pc = "processDonations"
        /\ outcome # "ok" => rpcFaults < MaxRpcFaults
        /\ rpcFaults' = IF outcome = "ok" THEN rpcFaults ELSE rpcFaults + 1
        /\ donateCalls' = IF t.pd.pc = "donate" /\ outcome = "ok"
                          THEN Append(donateCalls, donateCall(t.pd))
                          ELSE donateCalls
        /\ moralisSettle(i, moralisAfterProcessDonations(t, pd))
        /\ UNCHANGED <<calc, seasonRecords, txRecords, notifications, markDone,
                       calls, watchedWallets, processedTransactions, env, blockVars>>

\* the drain after one of its store updates settled: the record update of
\* the branch it took, or the lastDonation update of the sender's document
\* that follows the record update of an adjusted donation
MoralisUpdateDone(i) ==
    LET t == tasks[i]
        d == t.donation
        ids == {id \in DOMAIN seasonRecords :
                   seasonRecords[id].walletAddress = d.from}
    IN  /\ t.kind = "mdrain"
        /\ t.pc \in {"updateGoalMet", "updateAdjusted", "updateSuccess",
                     "updateFailedCatch", "updateLastDonation"}
        /\ txRecords' =
              CASE t.pc = "updateGoalMet" ->
                      findOneAndUpdate(txRecords, d.txHash, "failed",
                                       NoDonationTx, "Season goal is already met")
                [] t.pc = "updateAdjusted" ->
                      findOneAndUpdate(txRecords, d.txHash, "success",
                                       t.result.adjustedAmount, "none")
                [] t.pc = "updateSuccess" ->
                      findOneAndUpdate(txRecords, d.txHash, "success",
                                       NoDonationTx, "none")
                [] t.pc = "updateFailedCatch" ->
                      findOneAndUpdate(txRecords, d.txHash, "failed",
                                       NoDonationTx, "duplicate key")
                [] OTHER -> txRecords
        /\ seasonRecords' =
              IF t.pc = "updateLastDonation" /\ ids # {}
              THEN [seasonRecords EXCEPT
                      ![CHOOSE id \in ids : \A o \in ids : id <= o].lastDonation =
                          d.timestamp]
              ELSE seasonRecords
        /\ IF t.pc = "updateAdjusted" /\ d.from \in DOMAIN watchedWallets
           THEN /\ tasks' = [tasks EXCEPT ![i].pc = "updateLastDonation"]
                /\ UNCHANGED <<transactionQueue, isProcessing>>
           ELSE moralisDrainFinally(i)
        /\ UNCHANGED <<calc, notifications, markDone, calls, watchedWallets,
                       processedTransactions, env, blockVars, donateCalls, rpcFaults>>

\* MoralisWatcher.refreshWatchedWallets: ExistingWallet.find is not sorted, so
\* the documents arrive in an order the store chooses; the first document of
\* each lowercased address is kept.  The set of registries it can build.
moralisRefreshWatchedWallets(records) ==
    LET found == {id \in DOMAIN records :
                    records[id].active /\ records[id].percentAmount # 0}
        addresses == {toLowerCase(records[id].walletAddress) : id \in found}
        firsts == {f \in [addresses -> found] :
                     \A w \in addresses :
                        toLowerCase(records[f[w]].walletAddress) = w}
    IN  {[w \in addresses |->
            [walletAddress |-> w,
             configurations |-> <<walletConfig(f[w], records[f[w]])>>]] :
         f \in firsts}

\* the wallet refresh of MoralisWatcher (initialize and its interval callback)
MoralisWalletRefreshTick ==
    /\ watchedWallets' \in moralisRefreshWatchedWallets(seasonRecords)
    /\ UNCHANGED <<calc, seasonRecords, txRecords, tasks, notifications,
                   markDone, calls, processedTransactions, transactionQueue,
                   isProcessing, env, blockVars, donateCalls, rpcFaults>>

\* MoralisWatcher.startProcessingLoop: the interval callback
MoralisProcessingLoopTick ==
    LET next == IF Len(transactionQueue) > 0 /\ ~isProcessing
                THEN moralisProcessTransactionQueue(transactionQueue, isProcessing,
                                                    tasks, processedTransactions)
                ELSE [transactionQueue |-> transactionQueue,
                      isProcessing |-> isProcessing, tasks |-> tasks]
    IN  /\ transactionQueue' = next.transactionQueue
        /\ isProcessing' = next.isProcessing
        /\ tasks' = next.tasks
        /\ UNCHANGED <<calc, seasonRecords, txRecords, notifications, markDone,
                       calls, watchedWallets, processedTransactions, env, blockVars,
                       donateCalls, rpcFaults>>

\* goals of the donation target in the Moralis runs
TargetGoalDollarAmounts == {50, 100}

InitMoralis ==
    /\ calc = NoCalc
    /\ \E g \in TargetGoalDollarAmounts :
          seasonRecords = <<configDocument("w1", "w2", 100, TRUE, 7),
                            configDocument("w2", "t1", g, TRUE, 7)>>
    /\ txRecords = <<>>
    /\ tasks = <<>>
    /\ notifications = [id \in DOMAIN seasonRecords |-> 0]
    /\ markDone = [id \in DOMAIN seasonRecords |-> 0]
    /\ calls = 0
    /\ watchedWallets \in moralisRefreshWatchedWallets(seasonRecords)
    /\ processedTransactions = <<>>
    /\ transactionQueue = <<>>
    /\ isProcessing = FALSE
    /\ \E e \in BOOLEAN, a \in Allowances :
          env = [executor |-> e, allowance |-> [w \in Wallets |-> a],
                 etherPrice |-> NoPrice]
    /\ donateCalls = <<>>
    /\ rpcFaults = 0
    /\ BlocksIdle

NextMoralis ==
    \/ \E h \in TxHashes : MoralisERC20Transfer(h)
    \/ \E i \in 1 .. Len(tasks), o \in StoreOutcomes : MoralisHandlerSeasonStep(i, o)
    \/ \E i \in 1 .. Len(tasks) : MoralisSaveDone(i)
    \/ \E i \in 1 .. Len(tasks), o \in StoreOutcomes : MoralisDrainSeasonStep(i, o)
    \/ \E i \in 1 .. Len(tasks), o \in RpcOutcomes : MoralisProcessDonationsStep(i, o)
    \/ \E i \in 1 .. Len(tasks) : MoralisUpdateDone(i)
    \/ MoralisProcessingLoopTick
    \/ MoralisWalletRefreshTick

SpecMoralis == InitMoralis /\ [][NextMoralis]_vars

\* ---- MoralisWatcher.checkTransaction: the native transfers of a block ----

\* the transactions with a native value field handed to checkTransaction: a
\* zero-value transfer to a watched wallet and a valued one
NativeTxHashes == {"h0", "h1"}

\* the donation amount of checkTransaction: the floor of the dollar value's
\* percentage in USDC base units
moralisNativeDonationAmount(value, percentAmount, etherPrice) ==
    (value * getEtherPrice(etherPrice) * percentAmount * USDC_UNITS)
        \div (WEI_PER_ETH * 100)

\* checkTransaction(tx, blockTimestamp): the donation of the recipient's
\* configuration is pushed onto the queue; the value is never compared with
\* zero and the processed set is neither read nor written
moralisCheckTransaction(txHash, queue) ==
    LET tx == Transaction(txHash)
        config == watchedWallets[tx.to].configurations[1]
        amount == moralisNativeDonationAmount(tx.value, config.percentAmount,
                                              env.etherPrice)
        donation == [txHash |-> txHash, from |-> tx.to, to |-> config.target,
                     authorized |-> config.authorized, configId |-> config.id,
                     donationAmount |-> amount,
                     percentAmount |-> config.percentAmount,
                     assetType |-> "ETH", seasonId |-> NoSeason,
                     timestamp |-> tx.logs[1].blockTimestamp, nonce |-> 0,
                     faulted |-> FALSE]
    IN  IF tx.to \in DOMAIN watchedWallets /\ config.percentAmount > 0
        THEN Append(queue, donation)
        ELSE queue

\* a caller invokes checkTransaction
MoralisCheckTransaction(txHash) ==
    /\ calls < MaxDeliveries
    /\ calls' = calls + 1
    /\ transactionQueue' = moralisCheckTransaction(txHash, transactionQueue)
    /\ UNCHANGED <<calc, seasonRecords, txRecords, tasks, notifications,
                   markDone, watchedWallets, processedTransactions,
                   isProcessing, env, blockVars, donateCalls, rpcFaults>>

NextMoralisNative ==
    \/ \E h \in NativeTxHashes : MoralisCheckTransaction(h)
    \/ \E h \in {"h0", "h2"} : MoralisERC20Transfer(h)
    \/ \E i \in 1 .. Len(tasks), o \in StoreOutcomes : MoralisHandlerSeasonStep(i, o)
    \/ \E i \in 1 .. Len(tasks) : MoralisSaveDone(i)
    \/ \E i \in 1 .. Len(tasks), o \in StoreOutcomes : MoralisDrainSeasonStep(i, o)
    \/ \E i \in 1 .. Len(tasks), o \in RpcOutcomes : MoralisProcessDonationsStep(i, o)
    \/ \E i \in 1 .. Len(tasks) : MoralisUpdateDone(i)
    \/ MoralisProcessingLoopTick
    \/ MoralisWalletRefreshTick

SpecMoralisNative == InitMoralis /\ [][NextMoralisNative]_vars

\* a native transfer or token log of zero value
ZeroValueTransfer(txHash) ==
    /\ Transaction(txHash).value = 0
    /\ \A k \in 1 .. Len(Transaction(txHash).logs) :
          Transaction(txHash).logs[k].value = 0

\* C28: a transfer of zero value never leaves a donation intent on the queue
\* or with a drain, and never gets a transaction record
C28_ZeroValueDiscarded ==
    /\ \A k \in 1 .. Len(transactionQueue) :
          ~ZeroValueTransfer(transactionQueue[k].txHash)
    /\ \A i \in 1 .. Len(tasks) :
          tasks[i].kind \in {"drain", "mdrain", "bdrain"}
             => ~ZeroValueTransfer(tasks[i].txHash)
    /\ \A k \in 1 .. Len(txRecords) :
          ~ZeroValueTransfer(txRecords[k].txHash)

\* C8: every settlement record created in status pending is success or
\* failed once the drain that created it has finished; a pending record
\* belongs to a drain that is still running.
C8_NoRecordLeftPending ==
    \A k \in 1 .. Len(txRecords) :
        txRecords[k].status = "pending"
            => \E i \in 1 .. Len(tasks) :
                  /\ tasks[i].kind \in {"drain", "mdrain"}
                  /\ tasks[i].txHash = txRecords[k].txHash

\* C16: an intent that leaves the queue, whether it was queued before the
\* drain or while one was in flight, is taken up by a drain that goes on to
\* save its settlement record (or a record of its hash is already stored);
\* it is never dropped from the queue without one.
C16_DequeuedGetsRecord ==
    [][\A k \in 1 .. Len(transactionQueue) :
          LET d == transactionQueue[k]
          IN  (\A n \in 1 .. Len(transactionQueue') : transactionQueue'[n] # d)
                 => \/ \E i \in 1 .. Len(tasks') :
                          /\ tasks'[i].kind \in {"drain", "mdrain"}
                          /\ tasks'[i].donation = d
                    \/ hasRecord(txRecords', d.txHash)]_vars

\* C24: when a drain ends after processDonations returned to it, the record
\* of its intent tells the outcome: status success with the returned on-chain
\* transaction hash after a success result, status failed with the error
\* message after a failure result.
C24_RecordTellsOutcome ==
    [][\A i \in 1 .. Len(tasks) :
          (/\ tasks[i].kind \in {"drain", "mdrain"}
           /\ tasks[i].pd.pc = "done"
           /\ \A j \in 1 .. Len(tasks') : tasks'[j] # tasks[i]
           /\ ~\E j \in 1 .. Len(tasks') :
                  /\ tasks'[j].kind = tasks[i].kind
                  /\ tasks'[j].txHash = tasks[i].txHash
                  /\ tasks'[j].pc # "save")
             => \E k \in 1 .. Len(txRecords') :
                   /\ txRecords'[k].txHash = tasks[i].txHash
                   /\ IF tasks[i].pd.result.success
                      THEN /\ txRecords'[k].status = "success"
                           /\ txRecords'[k].donationTxHash
                                 = tasks[i].pd.result.transactionHash
                      ELSE /\ txRecords'[k].status = "failed"
                           /\ txRecords'[k].error
                                 = tasks[i].pd.result.message]_vars

(***************************************************************************)
(* The batch watcher: detection without a goal check, a queue that is      *)
(* only drained by the timer, and one processDonations call per contract.  *)
(***************************************************************************)
\* processValueTransfer of the batch watcher: the donation is queued when its
\* amount is positive (documents carry no network, so the default applies)
batchProcessValueTransfer(queue, registry, recipient, valueAmount, txHash, assetType, etherPrice, nonce) ==
    LET config == registry[recipient].configurations[1]
        usdcEquivalent == usdcEquivalentOf(assetType, valueAmount, etherPrice)
        donationAmount == (usdcEquivalent * config.percentAmount) \div 100
    IN  IF recipient \notin DOMAIN registry THEN queue
        ELSE IF config.percentAmount <= 0 \/ usdcEquivalent = Unsupported THEN queue
        ELSE IF donationAmount > 0
        THEN Append(queue,
                    [NoDonation EXCEPT
                        !.txHash = txHash, !.from = recipient,
                        !.to = config.target, !.authorized = config.authorized,
                        !.configId = config.id,
                        !.donationAmount = donationAmount,
                        !.percentAmount = config.percentAmount,
                        !.assetType = assetType, !.timestamp = Now,
                        !.nonce = nonce])
        ELSE queue

\* checkTransaction(tx): a native transfer to a watched wallet whose receipt
\* shows success is handed to processValueTransfer.  The handler reads the
\* registry, which no step of this watcher changes, and writes only the
\* queue, so its awaits are taken together with its last step.
BatchCheckTransaction(txHash, receipt) ==
    LET tx == Transaction(txHash)
    IN  /\ calls < MaxDeliveries
        /\ calls' = calls + 1
        /\ transactionQueue' =
              IF tx.to \in DOMAIN watchedWallets /\ receipt = "ok"
              THEN batchProcessValueTransfer(transactionQueue, watchedWallets,
                                             tx.to, tx.value, txHash, "ETH",
                                             env.etherPrice, calls + 1)
              ELSE transactionQueue
        /\ UNCHANGED <<calc, seasonRecords, txRecords, tasks, notifications,
                       markDone, watchedWallets, processedTransactions,
                       isProcessing, env, blockVars, donateCalls, rpcFaults>>

\* processERC20Transfer(tokenAddress, from, to, value, txHash)
BatchERC20Transfer(txHash) ==
    LET log == Transaction(txHash).logs[1]
    IN  /\ calls < MaxDeliveries
        /\ calls' = calls + 1
        /\ transactionQueue' =
              IF log.to \in DOMAIN watchedWallets /\ log.token = "USDC"
              THEN batchProcessValueTransfer(transactionQueue, watchedWallets,
                                             log.to, log.value, txHash, "USDC",
                                             env.etherPrice, calls + 1)
              ELSE transactionQueue
        /\ UNCHANGED <<calc, seasonRecords, txRecords, tasks, notifications,
                       markDone, watchedWallets, processedTransactions,
                       isProcessing, env, blockVars, donateCalls, rpcFaults>>

\* the contracts of the queued donations, in order of first appearance
RECURSIVE contractsOf(_)
contractsOf(queue) ==
    IF queue = <<>> THEN <<>>
    ELSE LET c == Head(queue).authorized
         IN  <<c>> \o contractsOf(SelectSeq(Tail(queue),
                                            LAMBDA d : d.authorized # c))

\* donationsByContract
donationsByContract(queue) ==
    LET contracts == contractsOf(queue)
    IN  [g \in 1 .. Len(contracts) |->
            SelectSeq(queue, LAMBDA d : d.authorized = contracts[g])]

\* the entries of one group that carry from, to and donationAmount
validDonations(contractDonations) ==
    SelectSeq(contractDonations,
              LAMBDA d : d.from # "none" /\ d.to # "none" /\ d.donationAmount # 0)

\* queue.filter(donation => !contractDonations.includes(donation))
removeProcessed(queue, contractDonations) ==
    SelectSeq(queue,
              LAMBDA d : \A k \in 1 .. Len(contractDonations) :
                            contractDonations[k].nonce # d.nonce)

\* the batch drain after processDonations returned or suspended: a success
\* starts the updateOne loop over all configIds of the group; a failure
\* keeps the group in the queue
RECURSIVE batchNextGroup(_, _)
batchAfterProcessDonations(t, pd, queue) ==
    IF pd.pc # "done"
    THEN [task |-> [t EXCEPT !.pd = pd, !.pc = "processDonations"],
          transactionQueue |-> queue]
    ELSE IF pd.result.success
    THEN [task |-> [t EXCEPT !.pd = pd, !.pc = "updateOne", !.i = 1],
          transactionQueue |-> queue]
    ELSE batchNextGroup([t EXCEPT !.pd = pd], queue)

\* the for loop over donationsByContract, up to its next await
batchNextGroup(t, queue) ==
    IF t.groups = <<>>
    THEN [task |-> [t EXCEPT !.pc = "finished"], transactionQueue |-> queue]
    ELSE LET contractDonations == Head(t.groups)
             contractAddress == contractDonations[1].authorized
             valid == validDonations(contractDonations)
             next == [t EXCEPT !.groups = Tail(t.groups),
                               !.contractDonations = contractDonations,
                               !.configIds =
                                   [k \in 1 .. Len(valid) |-> valid[k].configId]]
         IN  IF Len(valid) > 0
             THEN batchAfterProcessDonations(next,
                      processDonationsStart(
                          contractAddress,
                          [k \in 1 .. Len(valid) |-> valid[k].txHash],
                          [k \in 1 .. Len(valid) |-> valid[k].from],
                          [k \in 1 .. Len(valid) |-> valid[k].to],
                          [k \in 1 .. Len(valid) |-> valid[k].timestamp],
                          [k \in 1 .. Len(valid) |-> valid[k].donationAmount]),
                      queue)
             ELSE batchNextGroup(next,
                      SelectSeq(queue,
                                LAMBDA d : d.authorized # contractAddress))

\* put the batch drain at position i, or run its finally block
batchSettle(i, r) ==
    /\ transactionQueue' = r.transactionQueue
    /\ IF r.task.pc = "finished"
       THEN /\ tasks' = RemoveAt(tasks, i)
            /\ isProcessing' = FALSE
       ELSE /\ tasks' = [tasks EXCEPT ![i] = r.task]
            /\ UNCHANGED isProcessing

\* setInterval(() => this.processTransactionQueue(), 5000): the only caller
\* of the batch drain
BatchProcessingLoopTick ==
    LET groups == donationsByContract(transactionQueue)
        r == batchNextGroup([NewTask EXCEPT !.kind = "bdrain", !.groups = groups],
                            transactionQueue)
    IN  /\ IF drainGuard(isProcessing, transactionQueue)
           THEN /\ transactionQueue' = r.transactionQueue
                /\ IF r.task.pc = "finished"
                   THEN UNCHANGED <<tasks, isProcessing>>
                   ELSE /\ tasks' = Append(tasks, r.task)
                        /\ isProcessing' = TRUE
           ELSE UNCHANGED <<transactionQueue, tasks, isProcessing>>
        /\ UNCHANGED <<calc, seasonRecords, txRecords, notifications, markDone,
                       calls, watchedWallets, processedTransactions, env, blockVars,
                       donateCalls, rpcFaults>>

\* processDonations, called by the batch drain, moves on
BatchProcessDonationsStep(i, outcome) ==
    LET t == tasks[i]
        pd == processDonationsStep(t.pd, outcome)
    IN  /\ t.kind = "bdrain" /\ t.pc = "processDonations"
        /\ outcome # "ok" => rpcFaults < MaxRpcFaults
        /\ rpcFaults' = IF outcome = "ok" THEN rpcFaults ELSE rpcFaults + 1
        /\ donateCalls' = IF t.pd.pc = "donate" /\ outcome = "ok"
                          THEN Append(donateCalls, donateCall(t.pd))
                          ELSE donateCalls
        /\ batchSettle(i, batchAfterProcessDonations(t, pd, transactionQueue))
        /\ UNCHANGED <<calc, seasonRecords, txRecords, notifications, markDone,
                       calls, watchedWallets, processedTransactions, env, blockVars>>

\* ExistingWallet.updateOne({_id: configIds[i]}, {lastProcessedDonation})
\* settled; a rejected update is logged and the loop goes on.  After the last
\* one the whole group leaves the queue.
BatchUpdateOneDone(i, outcome) ==
    LET t == tasks[i]
        id == t.configIds[t.i]
        after == IF t.i < Len(t.configIds)
                 THEN [task |-> [t EXCEPT !.i = t.i + 1],
                       transactionQueue |-> transactionQueue]
                 ELSE batchNextGroup(t, removeProcessed(transactionQueue,
                                                        t.contractDonations))
    IN  /\ t.kind = "bdrain" /\ t.pc = "updateOne"
        /\ seasonRecords' =
              IF outcome = "ok" /\ id \in DOMAIN seasonRecords
              THEN [seasonRecords EXCEPT ![id].lastProcessedDonation = Now]
              ELSE seasonRecords
        /\ batchSettle(i, after)
        /\ UNCHANGED <<calc, txRecords, notifications, markDone, calls,
                       watchedWallets, processedTransactions, env, blockVars, donateCalls,
                       rpcFaults>>

\* allowances of the watched wallet in the batch runs: between the two
\* donation amounts, or above both
BatchAllowances == {80, 1000}

InitBatch ==
    /\ calc = NoCalc
    /\ seasonRecords = [id \in SeasonIds |-> seasonDocument(100, TRUE, 7)]
    /\ txRecords = <<>>
    /\ tasks = <<>>
    /\ notifications = [id \in SeasonIds |-> 0]
    /\ markDone = [id \in SeasonIds |-> 0]
    /\ calls = 0
    /\ watchedWallets = refreshWatchedWallets(seasonRecords)
    /\ processedTransactions = <<>>
    /\ transactionQueue = <<>>
    /\ isProcessing = FALSE
    /\ \E e \in BOOLEAN, a \in BatchAllowances :
          env = [executor |-> e, allowance |-> [w \in Wallets |-> a],
                 etherPrice |-> NoPrice]
    /\ donateCalls = <<>>
    /\ rpcFaults = 0
    /\ BlocksIdle

NextBatch ==
    \/ \E h \in TxHashes, r \in {"ok", "none"} : BatchCheckTransaction(h, r)
    \/ \E h \in TxHashes : BatchERC20Transfer(h)
    \/ BatchProcessingLoopTick
    \/ \E i \in 1 .. Len(tasks), o \in RpcOutcomes : BatchProcessDonationsStep(i, o)
    \/ \E i \in 1 .. Len(tasks), o \in {"ok", "error"} : BatchUpdateOneDone(i, o)
    \/ WalletRefreshTick

SpecBatch == InitBatch /\ [][NextBatch]_vars

\* the entries of a group that were in the accepted donate call
submitted(t, d) ==
    \E j \in 1 .. Len(t.pd.keys) : t.pd.keys[j] = d.txHash

\* C6: when one entry of a submitted group fails the allowance check, the
\* caller is told so: a group is never treated as settled (its configurations
\* stamped and its entries removed from the queue) while one of its entries
\* was left out of the donate call.
C6_FailedEntryReportedUnsettled ==
    \A i \in 1 .. Len(tasks) :
        tasks[i].kind = "bdrain" /\ tasks[i].pc = "updateOne"
            => \A k \in 1 .. Len(tasks[i].contractDonations) :
                  submitted(tasks[i], tasks[i].contractDonations[k])

\* C27: in one cycle of the batch drain the donations of one contract go out
\* in exactly one donate call: a call that is accepted is the first accepted
\* call of its processDonations invocation, it is addressed to the contract
\* of the group, and each of its entries is a donation of that group,
\* authorized for that contract.
C27_OneCallPerGroup ==
    [][\A i \in 1 .. Len(tasks) :
          (/\ tasks[i].kind = "bdrain"
           /\ tasks[i].pd.pc = "donate"
           /\ Len(donateCalls') > Len(donateCalls))
             => LET call == donateCalls'[Len(donateCalls')]
                IN  /\ tasks[i].pd.tx = NoDonationTx
                    /\ \A j \in 1 .. Len(call.froms) :
                          \E k \in 1 .. Len(tasks[i].contractDonations) :
                             LET d == tasks[i].contractDonations[k]
                             IN  /\ d.authorized = call.contractAddress
                                 /\ d.from = call.froms[j]
                                 /\ d.donationAmount = call.usdcAmounts[j]]_vars

\* C25: a group whose submission ended as failed is not submitted again:
\* when the batch drain ends straight after processDonations returned a
\* failure, none of the donations of that group is left in the queue for a
\* later tick.
C25_FailedNotResubmitted ==
    [][\A i \in 1 .. Len(tasks) :
          (/\ tasks[i].kind = "bdrain"
           /\ tasks[i].pc = "processDonations"
           /\ \A j \in 1 .. Len(tasks') : tasks'[j].kind # "bdrain")
             => \A k \in 1 .. Len(tasks[i].contractDonations),
                   n \in 1 .. Len(transactionQueue') :
                   transactionQueue'[n] # tasks[i].contractDonations[k]]_vars

\* the entry of donation d is among the entries of a donate call
inCall(call, d) ==
    \E j \in 1 .. Len(call.froms) :
        /\ call.froms[j] = d.from
        /\ call.usdcAmounts[j] = d.donationAmount

GoalDollarAmounts == {0, 100, 120}
ProposedAmounts == {20, 80, 100}

PriorRecordChoices ==
    {txDocument("p", "w1", 40, Now, "success"),
     txDocument("p", "w1", 100, Now, "success"),
     txDocument("p", "w1", 100, Now, "failed"),
     txDocument("p", "w1", 100, 1, "success")}

RECURSIVE SeqsUpTo(_, _)
SeqsUpTo(S, n) ==
    IF n = 0 THEN {<<>>}
    ELSE LET shorter == SeqsUpTo(S, n - 1)
         IN  shorter \cup {Append(q, x) : q \in shorter, x \in S}

InitAdjust ==
    /\ calc = NoCalc
    /\ \E d \in GoalDollarAmounts, a \in BOOLEAN :
          seasonRecords = [id \in SeasonIds |-> seasonDocument(d, a, 7)]
    /\ txRecords \in SeqsUpTo(PriorRecordChoices, MaxPriorRecords)
    /\ tasks = <<>>
    /\ notifications = [id \in SeasonIds |-> 0]
    /\ markDone = [id \in SeasonIds |-> 0]
    /\ calls = 0
    /\ PipelineIdle

\* a caller invokes seasonGoalService.checkAndAdjustDonation
CallCheckAndAdjustDonation(walletAddress, proposedAmount) ==
    /\ calls < MaxServiceCalls
    /\ calls' = calls + 1
    /\ tasks' = Append(tasks, evalStart([NewTask EXCEPT !.kind = "eval"],
                                        walletAddress, proposedAmount))
    /\ UNCHANGED <<calc, seasonRecords, txRecords, notifications, markDone, pipelineVars>>

\* a caller invokes seasonGoalService.markSeasonCompleted
CallMarkSeasonCompleted(seasonId) ==
    /\ calls < MaxServiceCalls
    /\ calls' = calls + 1
    /\ tasks' = Append(tasks, markStart([NewTask EXCEPT !.kind = "mark"], seasonId))
    /\ UNCHANGED <<calc, seasonRecords, txRecords, notifications, markDone, pipelineVars>>

\* the service call returns to its caller
ServiceReturn(i) ==
    /\ tasks[i].kind \in {"eval", "mark"}
    /\ tasks[i].pc = "return"
    /\ tasks' = RemoveAt(tasks, i)
    /\ UNCHANGED <<calc, seasonRecords, txRecords, notifications, markDone, calls, pipelineVars>>

\* a service call moves on
SeasonStep(i, outcome) ==
    LET r == seasonStep(tasks[i], outcome)
    IN  /\ outcome # "ok" => rpcFaults < MaxRpcFaults
        /\ rpcFaults' = IF outcome = "ok" THEN rpcFaults ELSE rpcFaults + 1
        /\ tasks[i].kind \in {"eval", "mark"}
        /\ tasks[i].pc \in SeasonPcs
        /\ tasks' = [tasks EXCEPT ![i] = r.task]
        /\ seasonRecords' = r.seasonRecords
        /\ notifications' = r.notifications
        /\ markDone' = r.markDone
        /\ UNCHANGED <<calc, txRecords, calls, watchedWallets,
                       processedTransactions, transactionQueue, isProcessing,
                       env, blockVars, donateCalls>>

NextAdjust ==
    \/ \E w \in Wallets, x \in ProposedAmounts : CallCheckAndAdjustDonation(w, x)
    \/ \E id \in SeasonIds : CallMarkSeasonCompleted(id)
    \/ \E i \in 1 .. Len(tasks), o \in StoreOutcomes : SeasonStep(i, o)
    \/ \E i \in 1 .. Len(tasks) : ServiceReturn(i)

SpecAdjust == InitAdjust /\ [][NextAdjust]_vars

ExpectedAdjusted(G, S, X) ==
    IF S >= G THEN 0
    ELSE IF G <= S + X THEN G - S
    ELSE X

\* C2: for a wallet whose most recent goal is active with goal G (a positive
\* dollarAmount), prior successful sum S in the window and proposed amount
\* X > 0, checkAndAdjustDonation returns adjusted amount 0 when S >= G,
\* exactly G - S when S < G <= S + X, and X otherwise; a call that answers
\* with the default response found no goal of the wallet, or found it
\* inactive or without an amount.  Calls whose store queries were rejected
\* are left to C11.
C2_GoalCap ==
    \A i \in 1 .. Len(tasks) :
        LET t == tasks[i]
        IN  (t.kind = "eval" /\ t.proposedAmount > 0 /\ ~t.donation.faulted
                /\ t.pc \in {"findById", "findByIdAndUpdate", "return"})
            => IF t.seasonId # NoSeason
               THEN LET season == seasonRecords[t.seasonId]
                        G == goalAmountUsdcUnits(season.dollarAmount)
                        S == SettledInWindow(txRecords, t.walletAddress, season)
                    IN  /\ G > 0
                        /\ t.result.adjustedAmount
                              = ExpectedAdjusted(G, S, t.proposedAmount)
               ELSE \A id \in DOMAIN seasonRecords :
                        \/ seasonRecords[id].walletAddress # t.walletAddress
                        \/ ~seasonRecords[id].active
                        \/ seasonRecords[id].dollarAmount = 0

\* the wallet has no goal document, or its most recent one is inactive
AbsentOrInactive(walletAddress) ==
    \/ getMostRecentSeason(walletAddress) = NoSeason
    \/ ~seasonRecords[getMostRecentSeason(walletAddress)].active

\* C29: when the wallet has no goal document, or its most recent goal is
\* inactive, the step of checkAndAdjustDonation that receives the answer of
\* getMostRecentSeason ends the call with the proposed amount unchanged and
\* the goal reported as not reached, and it writes no goal document, sends no
\* notification and starts no markSeasonCompleted
C29_AbsentOrInactiveUnchanged ==
    [][\A i \in 1 .. Len(tasks), o \in StoreOutcomes :
          (/\ tasks[i].kind = "eval"
           /\ tasks[i].pc = "getMostRecentSeason"
           /\ AbsentOrInactive(tasks[i].walletAddress)
           /\ SeasonStep(i, o))
             => /\ tasks'[i].pc = "return"
                /\ tasks'[i].result.adjustedAmount = tasks[i].proposedAmount
                /\ tasks'[i].result.proposedAmount = tasks[i].proposedAmount
                /\ ~tasks'[i].result.needsAdjustment
                /\ ~tasks'[i].result.isGoalComplete
                /\ tasks'[i].result.seasonId = NoSeason
                /\ seasonRecords' = seasonRecords
                /\ notifications' = notifications
                /\ markDone' = markDone]_vars

\* two calls have returned the default response: one for a wallet without a
\* goal document, one for a wallet whose most recent goal is inactive
C29_Witness ==
    \E i, j \in 1 .. Len(tasks) :
        /\ tasks[i].kind = "eval" /\ tasks[i].pc = "return"
        /\ ~tasks[i].donation.faulted
        /\ getMostRecentSeason(tasks[i].walletAddress) = NoSeason
        /\ tasks[i].result = defaultResponse(tasks[i].proposedAmount)
        /\ tasks[j].kind = "eval" /\ tasks[j].pc = "return"
        /\ ~tasks[j].donation.faulted
        /\ getMostRecentSeason(tasks[j].walletAddress) # NoSeason
        /\ ~seasonRecords[getMostRecentSeason(tasks[j].walletAddress)].active
        /\ seasonRecords[getMostRecentSeason(tasks[j].walletAddress)].dollarAmount > 0
        /\ tasks[j].result = defaultResponse(tasks[j].proposedAmount)
        /\ markDone = [id \in SeasonIds |-> 0]

\* C4: invoking markSeasonCompleted twice for the same goal id sends exactly
\* one notification, and the goal is completed and inactive after both.
C4_MarkTwiceOneNotification ==
    \A id \in SeasonIds :
        (markDone[id] = 2 /\ seasonRecords[id].fid # NoFid)
            => /\ notifications[id] = 1
               /\ seasonRecords[id].completed
               /\ ~seasonRecords[id].active

\* C5: when two checkAndAdjustDonation evaluations of one wallet have both
\* run on a goal that their proposed amount exceeds (S + X > G, the
\* exceed-condition, on the goal that was still active when each read it),
\* the completion side effect has fired exactly once: the goal is
\* deactivated and one notification was sent.
C5_CompletionFiresOnce ==
    \A i, j \in 1 .. Len(tasks) :
        (/\ i # j
         /\ tasks[i].kind = "eval" /\ tasks[j].kind = "eval"
         /\ tasks[i].pc = "return" /\ tasks[j].pc = "return"
         /\ ~tasks[i].donation.faulted /\ ~tasks[j].donation.faulted
         /\ tasks[i].seasonId # NoSeason
         /\ tasks[i].seasonId = tasks[j].seasonId
         /\ \A k \in {i, j} :
               SettledInWindow(txRecords, tasks[k].walletAddress,
                               seasonRecords[tasks[k].seasonId])
                   + tasks[k].proposedAmount
                 > goalAmountUsdcUnits(tasks[k].dollarAmount))
            => /\ notifications[tasks[i].seasonId] = 1
               /\ ~seasonRecords[tasks[i].seasonId].active

\* C26: the lastDonation field of a configuration document changes only when
\* a drain has settled an intent of that configuration with success, and then
\* to the timestamp of that intent; goal evaluations, goal completions and
\* failed settlements leave it alone.
C26_LastDonationOnlyOnSuccess ==
    [][\A id \in DOMAIN seasonRecords :
          seasonRecords'[id].lastDonation # seasonRecords[id].lastDonation
             => \E i \in 1 .. Len(tasks) :
                   /\ tasks[i].kind \in {"drain", "mdrain"}
                   /\ tasks[i].pc = "updateLastDonation"
                   /\ seasonRecords[id].walletAddress = tasks[i].donation.from
                   /\ seasonRecords'[id].lastDonation = tasks[i].donation.timestamp
                   /\ \E k \in 1 .. Len(txRecords) :
                         /\ txRecords[k].txHash = tasks[i].donation.txHash
                         /\ txRecords[k].status = "success"]_vars

\* C14: when a checkAndAdjustDonation evaluation brings the total to the goal
\* (S < G <= S + X on the active goal it read), it has, by the time it
\* returns, reported the goal as reached with adjusted amount G - S, and the
\* goal document is completed and inactive.
C14_ReachedGoalCompleted ==
    \A i \in 1 .. Len(tasks) :
        LET t == tasks[i]
        IN  (/\ t.kind = "eval" /\ t.pc = "return" /\ ~t.donation.faulted
             /\ t.seasonId # NoSeason
             /\ LET G == goalAmountUsdcUnits(t.dollarAmount)
                    S == SettledInWindow(txRecords, t.walletAddress,
                                         seasonRecords[t.seasonId])
                IN  S < G /\ G <= S + t.proposedAmount)
            => /\ t.result.isGoalComplete
               /\ t.result.adjustedAmount + SettledInWindow(txRecords,
                       t.walletAddress, seasonRecords[t.seasonId])
                     = goalAmountUsdcUnits(t.dollarAmount)
               /\ seasonRecords[t.seasonId].completed
               /\ ~seasonRecords[t.seasonId].active

(***************************************************************************)
(* SpecDonate: one invocation of BlockchainService.processDonations, with  *)
(* every RPC call it awaits free to answer, to be rate-limited or to fail. *)
(***************************************************************************)
DonateAllowances == {0, 1000}
\* the wallets of the entries a caller may pass, in order; entry k carries
\* the time k and the amount 80 + k
DonateEntries == <<"w1", "w2", "w2">>
\* the wallets of the entries of the group passed to processDonations
DonateGroups == {SubSeq(DonateEntries, 1, n) : n \in 0 .. Len(DonateEntries)}

InitDonate ==
    /\ calc = NoCalc
    /\ seasonRecords = [id \in SeasonIds |-> seasonDocument(100, TRUE, 7)]
    /\ txRecords = <<>>
    /\ tasks = <<>>
    /\ notifications = [id \in SeasonIds |-> 0]
    /\ markDone = [id \in SeasonIds |-> 0]
    /\ calls = 0
    /\ watchedWallets = <<>>
    /\ processedTransactions = <<>>
    /\ transactionQueue = <<>>
    /\ isProcessing = FALSE
    /\ \E e \in BOOLEAN, a \in [Wallets -> DonateAllowances] :
          env = [executor |-> e, allowance |-> a, etherPrice |-> NoPrice]
    /\ donateCalls = <<>>
    /\ rpcFaults = 0
    /\ BlocksIdle

\* a caller invokes blockchainService.processDonations({contractAddress,
\* froms, tos, donationTimes, usdcAmounts})
CallProcessDonations(froms) ==
    LET n == Len(froms)
        pd == processDonationsStart("c1", [k \in 1 .. n |-> "h1"], froms,
                                    [k \in 1 .. n |-> "t1"],
                                    [k \in 1 .. n |-> k],
                                    [k \in 1 .. n |-> 80 + k])
    IN  /\ calls = 0
        /\ calls' = 1
        /\ tasks' = Append(tasks, [NewTask EXCEPT !.kind = "call",
                                                  !.pc = "processDonations",
                                                  !.pd = pd])
        /\ UNCHANGED <<calc, seasonRecords, txRecords, notifications, markDone,
                       pipelineVars>>

\* the RPC call the invocation awaits settles
DonateStep(i, outcome) ==
    LET t == tasks[i]
        pd == processDonationsStep(t.pd, outcome)
    IN  /\ t.kind = "call" /\ t.pd.pc \notin {"none", "done"}
        /\ donateCalls' = IF t.pd.pc = "donate" /\ outcome = "ok"
                          THEN Append(donateCalls, donateCall(t.pd))
                          ELSE donateCalls
        /\ tasks' = [tasks EXCEPT ![i].pd = pd]
        /\ UNCHANGED <<calc, seasonRecords, txRecords, notifications, markDone,
                       calls, watchedWallets, processedTransactions,
                       transactionQueue, isProcessing, env, blockVars, rpcFaults>>

NextDonate ==
    \/ \E g \in DonateGroups : CallProcessDonations(g)
    \/ \E i \in 1 .. Len(tasks), o \in RpcOutcomes : DonateStep(i, o)

SpecDonate == InitDonate /\ [][NextDonate]_vars

\* every RPC call that is awaited settles
SpecDonateFair == SpecDonate /\ WF_vars(NextDonate)

\* C21: the retry budgets of the four points are independent: the budget of
\* the submission call (currentRetry, at most maxRetries retries of donate)
\* is used up only by a rate-limited donate call, never by the retries of the
\* executor check, the allowance check or the receipt wait running out.
C21_BudgetsIndependent ==
    [][\A i \in 1 .. Len(tasks) :
          (/\ tasks[i].kind = "call"
           /\ i <= Len(tasks')
           /\ tasks'[i].pd.currentRetry > tasks[i].pd.currentRetry)
             => tasks[i].pd.pc = "donate"]_vars

\* C22: an error that is not of the rate-limit class, at any of the four
\* points, ends the invocation in that step: the result is a failure whose
\* message carries the message of the error, and no call is made after it.
C22_OtherErrorAborts ==
    [][\A i \in 1 .. Len(tasks) :
          (tasks[i].kind = "call" /\ DonateStep(i, "error"))
             => /\ tasks'[i].pd.pc = "done"
                /\ ~tasks'[i].pd.result.success
                /\ tasks'[i].pd.result.message = errorMessage("error")
                /\ tasks'[i].pd.currentRetry = tasks[i].pd.currentRetry
                /\ donateCalls' = donateCalls]_vars

\* C22's case: the receipt wait of an accepted donate call failed with
\* another error, and the invocation returned the failure
C22_Witness ==
    \E i \in 1 .. Len(tasks) :
        /\ tasks[i].kind = "call"
        /\ tasks[i].pd.pc = "done"
        /\ tasks[i].pd.result.message = errorMessage("error")
        /\ Len(donateCalls) = 1

\* the invocation has returned a result
Returned(t) ==
    /\ t.pd.pc = "done"
    /\ t.pd.result.message # "none"

\* C23: processDonations terminates with a result, success true or false,
\* whatever the RPC calls answer: the passes of its loop stay within the
\* retry budget (at most maxRetries + 1 passes, hence as many donate
\* attempts), and every invocation eventually returns.
C23_Terminates ==
    /\ [](\A i \in 1 .. Len(tasks) :
            /\ tasks[i].pd.currentRetry <= maxRetries
            /\ tasks[i].pd.donateAttempts <= maxRetries + 1)
    /\ [](calls = 1 => <>(\A i \in 1 .. Len(tasks) : Returned(tasks[i])))

\* C23's case: every call was rate-limited until the budget ran out, and the
\* invocation returned
C23_Witness ==
    \E i \in 1 .. Len(tasks) :
        /\ tasks[i].kind = "call"
        /\ Returned(tasks[i])
        /\ tasks[i].pd.currentRetry = maxRetries
        /\ tasks[i].pd.donateAttempts = maxRetries + 1
        /\ donateCalls = <<>>

(***************************************************************************)
(* SpecRegistry: the registry refresh of both watchers over collections    *)
(* that hold several documents per wallet address.                         *)
(***************************************************************************)
DocumentAddresses == {"w1", "W1", "w2"}
MaxDocuments == 3

InitRegistry ==
    /\ calc = NoCalc
    /\ \E address \in [1 .. MaxDocuments -> DocumentAddresses],
          active \in [1 .. MaxDocuments -> BOOLEAN],
          created \in Permutations(1 .. MaxDocuments) :
          seasonRecords =
              [id \in 1 .. MaxDocuments |->
                  [configDocument(address[id], "t1", 100, active[id], 7)
                      EXCEPT !.timestamp = created[id],
                             !.created = created[id]]]
    /\ txRecords = <<>>
    /\ tasks = <<>>
    /\ notifications = [id \in DOMAIN seasonRecords |-> 0]
    /\ markDone = [id \in DOMAIN seasonRecords |-> 0]
    /\ calls = 0
    /\ PipelineIdle

NextRegistry ==
    \/ WalletRefreshTick
    \/ MoralisWalletRefreshTick

SpecRegistry == InitRegistry /\ [][NextRegistry]_vars

\* ---- the registry refresh of watcher.js over documents that may lack an
\* address or hold one that is not a string ----
StoredAddresses == DocumentAddresses \cup {MissingAddress, NonStringAddress}

InitStored ==
    /\ calc = NoCalc
    /\ \E address \in [1 .. MaxDocuments -> StoredAddresses],
          active \in [1 .. MaxDocuments -> BOOLEAN],
          created \in Permutations(1 .. MaxDocuments) :
          seasonRecords =
              [id \in 1 .. MaxDocuments |->
                  [configDocument(address[id], "t1", 100, active[id], 7)
                      EXCEPT !.timestamp = created[id],
                             !.created = created[id]]]
    /\ txRecords = <<>>
    /\ tasks = <<>>
    /\ notifications = [id \in DOMAIN seasonRecords |-> 0]
    /\ markDone = [id \in DOMAIN seasonRecords |-> 0]
    /\ calls = 0
    /\ PipelineIdle

NextStored == WalletRefreshTick

SpecStored == InitStored /\ [][NextStored]_vars

\* an active document with a target, a percentage and a string address
ValidActive(doc) ==
    /\ doc.active /\ doc.percentAmount # 0
    /\ doc.walletAddress \notin {MissingAddress, NonStringAddress}

\* C30: a registry refresh over a collection that holds malformed documents
\* ends with every valid active wallet in the registry
C30_MalformedDoesNotAbort ==
    [][\A id \in DOMAIN seasonRecords :
          ValidActive(seasonRecords[id])
             => toLowerCase(seasonRecords[id].walletAddress)
                    \in DOMAIN watchedWallets']_vars

\* the same over collections whose malformed documents only lack the address
C30_MissingSkipped ==
    [][(\A o \in DOMAIN seasonRecords :
            seasonRecords[o].walletAddress # NonStringAddress)
          => \A id \in DOMAIN seasonRecords :
                ValidActive(seasonRecords[id])
                   => toLowerCase(seasonRecords[id].walletAddress)
                          \in DOMAIN watchedWallets']_vars

\* the registry holds, for each address, one configuration, built from the
\* most recently created active document of that lowercased address
MostRecentActive(registry, records) ==
    \A w \in DOMAIN registry :
        /\ w = toLowerCase(w)
        /\ Len(registry[w].configurations) = 1
        /\ LET id == registry[w].configurations[1].id
           IN  /\ records[id].active
               /\ toLowerCase(records[id].walletAddress) = w
               /\ \A o \in DOMAIN records :
                     (records[o].active
                        /\ toLowerCase(records[o].walletAddress) = w)
                       => records[o].timestamp <= records[id].timestamp

\* C15: after every registry refresh each lowercased wallet address maps to
\* exactly one configuration, and among several active configurations of the
\* address it is the most recently created one.
C15_RefreshKeepsMostRecent ==
    [][(WalletRefreshTick \/ MoralisWalletRefreshTick)
          => MostRecentActive(watchedWallets', seasonRecords')]_vars

\* The part of C15 that the code does deliver: the refresh of
\* BlockchainWatcher, which sorts by timestamp.
C15_WatcherRefresh ==
    [][WalletRefreshTick
          => MostRecentActive(watchedWallets', seasonRecords')]_vars

(***************************************************************************)
(* SpecAmount: the donation computation on its own, over bounded inputs.   *)
(***************************************************************************)
TransferValues == {1, 2, 33, 34, 99, 100, 101, 5000, 20000}
Percents == {1, 2, 10, 50, 99, 100}

InitAmount ==
    /\ calc \in [asset : {"ETH", "USDC", "WETH"}, value : TransferValues,
                 percent : Percents, price : EtherPrices,
                 done : {FALSE}, donation : {0}]
    /\ seasonRecords = [id \in SeasonIds |-> seasonDocument(0, FALSE, NoFid)]
    /\ txRecords = <<>>
    /\ tasks = <<>>
    /\ notifications = [id \in SeasonIds |-> 0]
    /\ markDone = [id \in SeasonIds |-> 0]
    /\ calls = 0
    /\ PipelineIdle

ComputeAmount ==
    /\ ~calc.done
    /\ calc' = [calc EXCEPT !.done = TRUE,
                  !.donation = computeDonation(calc.asset, calc.value,
                                               calc.percent, calc.price)]
    /\ UNCHANGED <<seasonRecords, txRecords, tasks, notifications, markDone, calls, pipelineVars>>

SpecAmount == InitAmount /\ [][ComputeAmount]_vars

\* C10: for every percent in 1..100 and every strictly positive transfer
\* amount (native, wrapped-native or settlement-currency) the computed
\* donation is strictly positive.
C10_PositiveDonation ==
    (calc.done /\ calc.value > 0 /\ calc.percent \in 1 .. 100)
        => calc.donation > 0

\* The part of C10 that the code does deliver: settlement-currency transfers.
C10_UsdcPositive ==
    (calc.done /\ calc.asset = "USDC" /\ calc.value > 0 /\ calc.percent \in 1 .. 100)
        => calc.donation > 0
(***************************************************************************)
(* SpecBlocks: the block watcher of clean-watcher.js and unnamed/part_006: *)
(* the 'block' listener and the polling callback share processBlock and    *)
(* lastProcessedBlock.  The chain mines blocks 1 .. MaxBlock after the     *)
(* watcher started; the provider emits one 'block' event per block, in     *)
(* order (calls counts them); the blocks hold no transactions.             *)
(***************************************************************************)
MaxBlock == 4
MaxPollsInFlight == 2
MaxFetches == 6
\* the 10 blocks of one polling callback (startBlock + 9), scaled to 2
maxBlocksPerPoll == 2

InitBlocks ==
    /\ calc = NoCalc
    /\ seasonRecords = <<>>
    /\ txRecords = <<>>
    /\ tasks = <<>>
    /\ notifications = <<>>
    /\ markDone = <<>>
    /\ calls = 0
    /\ PipelineIdle

\* the chain mines a block
MineBlock ==
    /\ blockNumber < MaxBlock
    /\ blockNumber' = blockNumber + 1
    /\ UNCHANGED <<calc, seasonRecords, txRecords, tasks, notifications,
                   markDone, calls, watchedWallets, processedTransactions,
                   transactionQueue, isProcessing, env, lastProcessedBlock,
                   scannedBlocks, donateCalls, rpcFaults>>

\* processBlock(blockNumber) up to its first await: the activation t goes on
\* to fetch the block, or processBlock returns at once
processBlockStart(t, n, last) ==
    IF n <= last
    THEN [task |-> [t EXCEPT !.pc = "returned", !.blockNumber = n],
          lastProcessedBlock |-> last]
    ELSE [task |-> [t EXCEPT !.pc = "getBlockWithTransactions",
                             !.blockNumber = n],
          lastProcessedBlock |-> n]

\* a variant of the polling range without the cap
pollRange_Uncapped(latestBlock, last) ==
    [startBlock |-> last + 1, endBlock |-> latestBlock]

\* the range of one polling callback
pollRange(latestBlock, last) ==
    [startBlock |-> last + 1,
     endBlock |-> IF latestBlock < last + maxBlocksPerPoll
                  THEN latestBlock ELSE last + maxBlocksPerPoll]

\* the for loop of the polling callback from block n on: the calls of
\* processBlock that return at once follow each other without an await on a
\* pending operation; the loop stops at the first block that is fetched or
\* behind endBlock
RECURSIVE pollLoop(_, _, _)
pollLoop(t, n, last) ==
    IF n > t.endBlock
    THEN [task |-> [t EXCEPT !.pc = "finished"], lastProcessedBlock |-> last]
    ELSE LET r == processBlockStart(t, n, last)
         IN  IF r.task.pc = "returned"
             THEN pollLoop(t, n + 1, last)
             ELSE r

\* the 'block' listener of startBlockchainMonitoring, up to its first await
BlockEvent ==
    LET n == calls + 1
        r == processBlockStart([NewTask EXCEPT !.kind = "listener"], n,
                               lastProcessedBlock)
    IN  /\ calls < blockNumber
        /\ calls' = n
        /\ lastProcessedBlock' = r.lastProcessedBlock
        /\ tasks' = IF r.task.pc = "returned" THEN tasks
                    ELSE Append(tasks, r.task)
        /\ UNCHANGED <<calc, seasonRecords, txRecords, notifications,
                       markDone, watchedWallets, processedTransactions,
                       transactionQueue, isProcessing, env, blockNumber,
                       scannedBlocks, donateCalls, rpcFaults>>

\* the setInterval callback of setupBlockPolling, up to its first await
PollTick ==
    /\ Cardinality({i \in 1 .. Len(tasks) : tasks[i].kind = "poll"})
          < MaxPollsInFlight
    /\ tasks' = Append(tasks, [NewTask EXCEPT !.kind = "poll",
                                              !.pc = "getBlockNumber"])
    /\ UNCHANGED <<calc, seasonRecords, txRecords, notifications, markDone,
                   calls, watchedWallets, processedTransactions,
                   transactionQueue, isProcessing, env, blockVars,
                   donateCalls, rpcFaults>>

\* the polling callback after provider.getBlockNumber() settled
PollGetBlockNumberDone(i, outcome) ==
    LET t == tasks[i]
        range == pollRange(blockNumber, lastProcessedBlock)
        r == pollLoop([t EXCEPT !.startBlock = range.startBlock,
                                !.endBlock = range.endBlock],
                      range.startBlock, lastProcessedBlock)
    IN  /\ t.kind = "poll" /\ t.pc = "getBlockNumber"
        /\ IF outcome = "error" \/ blockNumber <= lastProcessedBlock
           THEN /\ tasks' = RemoveAt(tasks, i)
                /\ UNCHANGED lastProcessedBlock
           ELSE /\ tasks' = Settle(tasks, i, r.task)
                /\ lastProcessedBlock' = r.lastProcessedBlock
        /\ UNCHANGED <<calc, seasonRecords, txRecords, notifications, markDone,
                       calls, watchedWallets, processedTransactions,
                       transactionQueue, isProcessing, env, blockNumber,
                       scannedBlocks, donateCalls, rpcFaults>>

\* how provider.getBlockWithTransactions settles: with the block, with
\* nothing, or rejected
BlockOutcomes == {"ok", "none", "error"}

\* processBlock after getBlockWithTransactions settled: with a block the
\* transactions are checked and lastProcessedBlock is set again; then the
\* listener returns and the polling callback goes on with its loop
GetBlockDone(i, outcome) ==
    LET t == tasks[i]
        last == IF outcome = "ok" THEN t.blockNumber ELSE lastProcessedBlock
        r == IF t.kind = "poll"
             THEN pollLoop([t EXCEPT !.fetched = @ + 1], t.blockNumber + 1, last)
             ELSE [task |-> [t EXCEPT !.pc = "finished"],
                   lastProcessedBlock |-> last]
    IN  /\ t.kind \in {"listener", "poll"}
        /\ t.pc = "getBlockWithTransactions"
        /\ Len(scannedBlocks) < MaxFetches
        /\ scannedBlocks' = IF outcome = "ok"
                            THEN Append(scannedBlocks, t.blockNumber)
                            ELSE scannedBlocks
        /\ tasks' = Settle(tasks, i, r.task)
        /\ lastProcessedBlock' = r.lastProcessedBlock
        /\ UNCHANGED <<calc, seasonRecords, txRecords, notifications, markDone,
                       calls, watchedWallets, processedTransactions,
                       transactionQueue, isProcessing, env, blockNumber,
                       donateCalls, rpcFaults>>

NextBlocks ==
    \/ MineBlock
    \/ BlockEvent
    \/ PollTick
    \/ \E i \in 1 .. Len(tasks), o \in {"ok", "error"} : PollGetBlockNumberDone(i, o)
    \/ \E i \in 1 .. Len(tasks), o \in BlockOutcomes : GetBlockDone(i, o)

SpecBlocks == InitBlocks /\ [][NextBlocks]_vars

\* the timer-driven kinds of activation: the queue drains and the polling
\* callback
TimerKinds == {"drain", "mdrain", "bdrain", "poll"}

\* C31: of every timer callback at most one run is in flight at any time
C31_NoOverlappingRuns ==
    \A k \in TimerKinds :
        Cardinality({i \in 1 .. Len(tasks) : tasks[i].kind = k}) <= 1

\* C34: a polling callback fetches at most maxBlocksPerPoll blocks, all of
\* them in a range that starts at lastProcessedBlock + 1 as it was when
\* getBlockNumber answered, however far the chain head is ahead
C34_PollCapped ==
    /\ [](\A i \in 1 .. Len(tasks) :
            (tasks[i].kind = "poll" /\ tasks[i].pc = "getBlockWithTransactions")
               => /\ tasks[i].endBlock - tasks[i].startBlock < maxBlocksPerPoll
                  /\ tasks[i].blockNumber >= tasks[i].startBlock
                  /\ tasks[i].blockNumber <= tasks[i].endBlock
                  /\ tasks[i].fetched < maxBlocksPerPoll)
    /\ [][\A i \in 1 .. Len(tasks) :
            (/\ tasks[i].kind = "poll"
             /\ PollGetBlockNumberDone(i, "ok")
             /\ Len(tasks') = Len(tasks))
               => /\ tasks'[i].startBlock = lastProcessedBlock + 1
                  /\ tasks'[i].blockNumber = lastProcessedBlock + 1
                  /\ tasks'[i].pc = "getBlockWithTransactions"]_vars

\* a polling callback is at the last block it may fetch while the chain
\* head is further ahead
C34_Witness ==
    \E i \in 1 .. Len(tasks) :
        /\ tasks[i].kind = "poll" /\ tasks[i].pc = "getBlockWithTransactions"
        /\ tasks[i].fetched = maxBlocksPerPoll - 1
        /\ tasks[i].blockNumber = tasks[i].endBlock
        /\ tasks[i].endBlock - tasks[i].startBlock = maxBlocksPerPoll - 1
        /\ blockNumber > tasks[i].endBlock

\* a block activation is fetching block n
Fetching(n) ==
    \E i \in 1 .. Len(tasks) :
        /\ tasks[i].pc = "getBlockWithTransactions"
        /\ tasks[i].blockNumber = n

Scanned(n) == \E k \in 1 .. Len(scannedBlocks) : scannedBlocks[k] = n

\* no block is scanned twice
C35_NoRescan ==
    \A a, b \in 1 .. Len(scannedBlocks) :
        a # b => scannedBlocks[a] # scannedBlocks[b]

\* no block is left behind lastProcessedBlock unscanned
C35_NoSkip ==
    \A n \in 1 .. lastProcessedBlock : Scanned(n) \/ Fetching(n)

\* C35: every block mined after startup is scanned exactly once: no block is
\* scanned twice, and no block at or below lastProcessedBlock is left without
\* a scan done or in flight
C35_ScannedExactlyOnce == C35_NoRescan /\ C35_NoSkip

(***************************************************************************)
(* SpecTracked: the handlers of MoralisWatcher started with a processed    *)
(* set that already holds maxTrackedTransactions earlier hashes.           *)
(***************************************************************************)
EarlierHashes == [k \in 1 .. maxTrackedTransactions |-> ToString(k)]

InitTracked ==
    /\ calc = NoCalc
    /\ seasonRecords = <<configDocument("w1", "w2", 100, TRUE, 7),
                         configDocument("w2", "t1", 100, TRUE, 7)>>
    /\ txRecords = <<>>
    /\ tasks = <<>>
    /\ notifications = [id \in DOMAIN seasonRecords |-> 0]
    /\ markDone = [id \in DOMAIN seasonRecords |-> 0]
    /\ calls = 0
    /\ watchedWallets \in moralisRefreshWatchedWallets(seasonRecords)
    /\ processedTransactions = EarlierHashes
    /\ transactionQueue = <<>>
    /\ isProcessing = FALSE
    /\ env = [executor |-> TRUE, allowance |-> [w \in Wallets |-> 1000],
              etherPrice |-> NoPrice]
    /\ donateCalls = <<>>
    /\ rpcFaults = 0
    /\ BlocksIdle

NextTracked ==
    \/ \E h \in {"h0", "h2"} : MoralisERC20Transfer(h)
    \/ \E i \in 1 .. Len(tasks), o \in StoreOutcomes : MoralisHandlerSeasonStep(i, o)
    \/ \E i \in 1 .. Len(tasks) : MoralisSaveDone(i)
    \/ \E i \in 1 .. Len(tasks), o \in StoreOutcomes : MoralisDrainSeasonStep(i, o)
    \/ \E i \in 1 .. Len(tasks), o \in RpcOutcomes : MoralisProcessDonationsStep(i, o)
    \/ \E i \in 1 .. Len(tasks) : MoralisUpdateDone(i)
    \/ MoralisProcessingLoopTick

SpecTracked == InitTracked /\ [][NextTracked]_vars

\* C32: the processed set never holds more than maxTrackedTransactions
\* hashes once a handler has returned or is suspended
C32_TrackedBounded == Len(processedTransactions) <= maxTrackedTransactions

(***************************************************************************)
(* SpecWebhook: processWebhookData of server.js over payloads whose logs   *)
(* and txs fields are absent, arrays with well-formed and malformed        *)
(* entries, or values that cannot be iterated; the watcher behind it is    *)
(* MoralisWatcher.  A well-formed entry is named by its transaction hash.  *)
(***************************************************************************)
\* an entry that makes the code of its loop body throw (null, a Transfer log
\* without topics, a value that BigInt rejects)
MalformedEntry == "null"
Absent == [shape |-> "absent", entries |-> <<>>]
\* a field value that is neither absent nor iterable (an object, a number)
NotIterable == [shape |-> "object", entries |-> <<>>]
Array(entries) == [shape |-> "array", entries |-> entries]

LogsFields ==
    {Absent, NotIterable, Array(<<"h2">>), Array(<<MalformedEntry, "h2">>),
     Array(<<"h2", MalformedEntry>>)}
TxsFields ==
    {Absent, NotIterable, Array(<<"h1">>), Array(<<MalformedEntry, "h1">>)}

\* the loops of processWebhookData, in the order of the code
nextField(field) == IF field = "logs" THEN "txs" ELSE "done"

\* processWebhookData running from entry k of a field until it is suspended
\* in a call of the watcher or returns.  for...of over a value that is not
\* iterable throws into the catch block of the function, which ends it; an
\* entry that throws is caught inside the loop body; a call of the watcher
\* that settles without waiting for a store is followed at once
RECURSIVE webhookRun(_, _, _, _)
webhookRun(t, field, k, st) ==
    IF field = "done"
    THEN [task |-> [t EXCEPT !.pc = "returned", !.field = field], state |-> st]
    ELSE LET value == t.webhookData[field]
         IN  IF value.shape = "object"
             THEN [task |-> [t EXCEPT !.pc = "returned", !.field = field],
                   state |-> st]
             ELSE IF k > Len(value.entries)
             THEN webhookRun(t, nextField(field), 1, st)
             ELSE IF value.entries[k] = MalformedEntry
             THEN webhookRun(t, field, k + 1, st)
             ELSE LET h == value.entries[k]
                      called == [t EXCEPT !.handed = Append(@, h),
                                          !.field = field, !.entry = k,
                                          !.txHash = h]
                  IN  IF field = "logs"
                      THEN LET r == moralisERC20TransferStart(
                                        h, st.processedTransactions, st.tasks)
                               after == [st EXCEPT
                                            !.processedTransactions =
                                                r.processedTransactions,
                                            !.tasks = r.tasks]
                           IN  IF Len(r.tasks) > Len(st.tasks)
                               THEN [task |-> [called EXCEPT
                                                  !.pc = "processERC20Transfer"],
                                     state |-> after]
                               ELSE webhookRun(called, field, k + 1, after)
                      ELSE webhookRun(called, field, k + 1,
                                      [st EXCEPT !.transactionQueue =
                                          moralisCheckTransaction(h, @)])

InitWebhook ==
    /\ calc = NoCalc
    /\ seasonRecords = <<configDocument("w1", "w2", 100, TRUE, 7),
                         configDocument("w2", "t1", 100, TRUE, 7)>>
    /\ txRecords = <<>>
    /\ tasks = <<>>
    /\ notifications = [id \in DOMAIN seasonRecords |-> 0]
    /\ markDone = [id \in DOMAIN seasonRecords |-> 0]
    /\ calls = 0
    /\ watchedWallets \in moralisRefreshWatchedWallets(seasonRecords)
    /\ processedTransactions = <<>>
    /\ transactionQueue = <<>>
    /\ isProcessing = FALSE
    /\ env = [executor |-> TRUE, allowance |-> [w \in Wallets |-> 1000],
              etherPrice |-> NoPrice]
    /\ donateCalls = <<>>
    /\ rpcFaults = 0
    /\ BlocksIdle

\* the route handler calls processWebhookData(req.body)
WebhookPost(logs, txs) ==
    LET t == [NewTask EXCEPT !.kind = "webhook",
                             !.webhookData = [logs |-> logs, txs |-> txs]]
        r == webhookRun(t, "logs", 1,
                        [processedTransactions |-> processedTransactions,
                         tasks |-> tasks, transactionQueue |-> transactionQueue])
    IN  /\ calls = 0
        /\ calls' = 1
        /\ processedTransactions' = r.state.processedTransactions
        /\ transactionQueue' = r.state.transactionQueue
        /\ tasks' = Append(r.state.tasks, r.task)
        /\ UNCHANGED <<calc, seasonRecords, txRecords, notifications, markDone,
                       watchedWallets, isProcessing, env, blockVars,
                       donateCalls, rpcFaults>>

\* processWebhookData goes on once the call of processERC20Transfer it awaits
\* has settled
WebhookResume(i) ==
    LET t == tasks[i]
        r == webhookRun(t, t.field, t.entry + 1,
                        [processedTransactions |-> processedTransactions,
                         tasks |-> tasks, transactionQueue |-> transactionQueue])
    IN  /\ t.kind = "webhook" /\ t.pc = "processERC20Transfer"
        /\ \A j \in 1 .. Len(tasks) :
              ~(tasks[j].kind = "mhandler" /\ tasks[j].txHash = t.txHash)
        /\ processedTransactions' = r.state.processedTransactions
        /\ transactionQueue' = r.state.transactionQueue
        /\ tasks' = [r.state.tasks EXCEPT ![i] = r.task]
        /\ UNCHANGED <<calc, seasonRecords, txRecords, notifications, markDone,
                       calls, watchedWallets, isProcessing, env, blockVars,
                       donateCalls, rpcFaults>>

NextWebhook ==
    \/ \E logs \in LogsFields, txs \in TxsFields : WebhookPost(logs, txs)
    \/ \E i \in 1 .. Len(tasks) : WebhookResume(i)
    \/ \E i \in 1 .. Len(tasks), o \in StoreOutcomes : MoralisHandlerSeasonStep(i, o)
    \/ \E i \in 1 .. Len(tasks) : MoralisSaveDone(i)
    \/ \E i \in 1 .. Len(tasks), o \in StoreOutcomes : MoralisDrainSeasonStep(i, o)
    \/ \E i \in 1 .. Len(tasks), o \in RpcOutcomes : MoralisProcessDonationsStep(i, o)
    \/ \E i \in 1 .. Len(tasks) : MoralisUpdateDone(i)
    \/ MoralisProcessingLoopTick

SpecWebhook == InitWebhook /\ [][NextWebhook]_vars

\* the well-formed entries of a payload field
WellFormed(value) ==
    {value.entries[k] : k \in {j \in 1 .. Len(value.entries) :
                                  value.entries[j] # MalformedEntry}}

\* every well-formed entry of the payload was handed to the watcher
AllHanded(t) ==
    \A field \in {"logs", "txs"} :
        \A h \in WellFormed(t.webhookData[field]) :
            \E k \in 1 .. Len(t.handed) : t.handed[k] = h

\* C33: when processWebhookData has returned, every well-formed entry of the
\* payload has been handed to the watcher, whatever else the payload holds
C33_WellFormedStillProcessed ==
    \A i \in 1 .. Len(tasks) :
        (tasks[i].kind = "webhook" /\ tasks[i].pc = "returned")
           => AllHanded(tasks[i])

\* the same over payloads whose fields are absent or arrays
C33_MalformedEntriesSkipped ==
    \A i \in 1 .. Len(tasks) :
        (/\ tasks[i].kind = "webhook" /\ tasks[i].pc = "returned"
         /\ \A field \in {"logs", "txs"} :
               tasks[i].webhookData[field].shape # "object")
           => AllHanded(tasks[i])

\* record k has status success after the step and had not before it
BecomesSuccess(k) ==
    /\ txRecords'[k].status = "success"
    /\ k > Len(txRecords) \/ txRecords[k].status # "success"

C37_SuccessAbsorbing ==
    [][\A k \in 1 .. Len(txRecords) :
          txRecords[k].status = "success"
             => /\ k <= Len(txRecords')
                /\ txRecords'[k].txHash = txRecords[k].txHash
                /\ txRecords'[k].status = "success"]_vars


\* C38: one invocation of processDonations has at most one donate call
\* accepted by the chain, also when the receipt wait of the accepted call is
\* rate-limited until its retries run out.
C38_OneAcceptedDonate ==
    \A i \in 1 .. Len(tasks) :
        tasks[i].kind = "call" => Len(donateCalls) <= 1


C40_ArraysAligned ==
    \A i \in 1 .. Len(tasks) :
        (tasks[i].kind = "call" /\ tasks[i].pd.pc \in {"donate", "wait"})
            => LET pd == tasks[i].pd
                   n == Len(pd.froms)
               IN  /\ Len(pd.tos) = n
                   /\ Len(pd.donationTimes) = n
                   /\ Len(pd.usdcAmounts) = n
                   /\ \A j \in 1 .. n :
                         LET k == pd.donationTimes[j]
                         IN  /\ k \in 1 .. Len(DonateEntries)
                             /\ pd.froms[j] = DonateEntries[k]
                             /\ pd.usdcAmounts[j] = 80 + k
                             /\ j > 1 => pd.donationTimes[j - 1] < k

\* C40's case: the last two entries of a batch of three failed the check,
\* one after the other, and the remaining entry is handed to donate
C40_Witness ==
    \E i \in 1 .. Len(tasks) :
        /\ tasks[i].kind = "call"
        /\ tasks[i].pd.pc = "donate"
        /\ tasks[i].pd.froms = <<"w1">>
        /\ tasks[i].pd.i = 2
        /\ env.allowance["w2"] = 0

\* C40's second case: the first entry failed the check and the two entries
\* behind it moved up
C40_WitnessFirst ==
    \E i \in 1 .. Len(tasks) :
        /\ tasks[i].kind = "call"
        /\ tasks[i].pd.pc = "wait"
        /\ tasks[i].pd.donationTimes = <<2, 3>>

====
